---- MODULE Spec2Model ----
(***************************************************************************)
(* A model of the gohtml client: the query model with its builder and     *)
(* validation pass (package client), the selector and sizes enumerations   *)
(* it validates against, and the conversion call of the protocol client.   *)
(*                                                                         *)
(* Durations are counted in milliseconds.  A Length is a record            *)
(* [unit, val]; Millimeters() is computed exactly, in 1/10000 mm.          *)
(* An error is a record [text, arg, wraps]: its message, the values        *)
(* formatted into the message, and the text of the sentinel it wraps (%w). *)
(***************************************************************************)
EXTENDS Integers, Sequences, FiniteSets, TLC

VARIABLES
    query,      \* QueryBuilder.query: the draft Query
    err,        \* QueryBuilder.err: the sticky error
    returned,   \* TRUE once Query() has handed out &q.query
    snapshot,   \* the Query value seen through that pointer when it was returned
    last,       \* the last call made on the builder: [op, content, before, ret]
    ncalls,     \* number of builder calls made so far
    vq,         \* a Query value handed to Query.Validate
    verr,       \* <<>> before Validate ran, <<e>> with the error it returned
    cliTimeout, \* cli.Client.Timeout, the stored default of the shared http.Client
    conv,       \* the ConvertHTML calls in flight, by caller
    gen,        \* a call of getGenerateRequest: its Query and the body it encoded
    sz,         \* a call into package sizes: its argument and what it returned
    trim,       \* a call of detectTrimHeight: the image and where the scan ended
    lay,        \* the loop of GeneratePageBlocks over the pages extract returned
    doc,        \* a Document of the plugin
    resolved,   \* the last call of Document.getMargins: what it found stored, what it returned
    unihtmlClient, \* the package's client: FALSE while it is nil
    health,     \* the connect calls made: the last health check, what the last call returned
    exp,        \* the export running on the document
    now,        \* the time, in milliseconds
    stat        \* exports begun and conversion calls issued so far

vars == <<query, err, returned, snapshot, last, ncalls, vq, verr, cliTimeout, conv,
          gen, sz, trim, lay, doc, resolved, unihtmlClient, health, exp, now, stat>>

builderVars == <<query, err, returned, snapshot, last, ncalls>>
validateVars == <<vq, verr>>
clientVars == <<cliTimeout, conv>>
requestVars == <<gen>>
sizesVars == <<sz>>
trimVars == <<trim, lay>>
documentVars == <<doc, resolved, unihtmlClient, health, exp, now, stat>>
otherVars == <<requestVars, sizesVars, trimVars, documentVars>>

----------------------------------------------------------------------------
(* Bounds of the model *)

\* builder calls made on one QueryBuilder
MaxCalls == 3
\* wait-conditions held by one list of the RenderParameters
MaxSel == 2
\* ConvertHTML calls running concurrently on one Client
NumCallers == 2

----------------------------------------------------------------------------
(* Errors *)

E(text, arg, wraps) == [text |-> text, arg |-> arg, wraps |-> wraps]

NoErr == E("nil", <<>>, "")

ErrMissingData == E("missing input data", <<>>, "")
ErrContentType == E("invalid content type", <<>>, "")
ErrContentTypeDeclared == E("content type is already declared", <<>>, "")

ErrNotFound == E("not found", <<>>, "")
ErrBadRequest == E("bad request", <<>>, "")
ErrNotImplemented == E("not implemented", <<>>, "")
ErrInternalError == E("internal server error", <<>>, "")
ErrBadGateway == E("bad gateway", <<>>, "")
ErrUnauthorized == E("unauthorized", <<>>, "")
ErrTimedOut == E("request timed out", <<>>, "")

\* errors.Is(e, sentinel)
Is(e, sentinel) == e = sentinel \/ e.wraps = sentinel.text

----------------------------------------------------------------------------
(* package sizes *)

inchToMm == 254000
pointToMm == 3528

Nil == [unit |-> "nil", val |-> 0]
Millimeter(v) == [unit |-> "mm", val |-> v]
Inch(v) == [unit |-> "in", val |-> v]
Point(v) == [unit |-> "pt", val |-> v]

\* Length.Millimeters(), in 1/10000 mm
Millimeters(l) ==
    CASE l.unit = "mm" -> l.val * 10000
      [] l.unit = "in" -> l.val * inchToMm
      [] l.unit = "pt" -> l.val * pointToMm

Undefined == 0
A4 == 5
Letter == 23

pageSizes == Undefined..Letter

IsAPageSize(p) == \E v \in pageSizes : p = v

Portrait == FALSE
Landscape == TRUE

----------------------------------------------------------------------------
(* package selector *)

ByUndefined == 0
ByID == 1
BySearch == 6

ByTypeValidate(b) ==
    IF b >= ByID /\ b <= BySearch THEN NoErr
    ELSE E("invalid by selector", <<>>, "")

----------------------------------------------------------------------------
(* package client: the query model *)

Second == 1000
Minute == 60 * Second

BySelector(sel, by) == [Selector |-> sel, By |-> by]

BySelectorValidate(b) ==
    IF b.Selector = "" THEN E("provided empty selector", <<>>, "")
    ELSE ByTypeValidate(b.By)

\* the first error of a list of wait-conditions, NoErr when there is none
RECURSIVE FirstSelectorErr(_)
FirstSelectorErr(s) ==
    IF s = <<>> THEN NoErr
    ELSE IF BySelectorValidate(Head(s)) # NoErr THEN BySelectorValidate(Head(s))
    ELSE FirstSelectorErr(Tail(s))

RenderParametersValidate(rp) ==
    IF rp.WaitTime > Minute * 3
    THEN E("too long minimum load time. Maximum is 3 minutes", <<>>, "")
    ELSE IF FirstSelectorErr(rp.WaitReady) # NoErr
    THEN E("one of wait ready selector is not valid", <<>>, FirstSelectorErr(rp.WaitReady).text)
    ELSE NoErr

\* the error PageParameters.Validate returns for a negative dimension d
NegativeErr(d) == E("negative value for " \o d, <<>>, "")

\* Negative with the comparison off by one: a zero dimension is rejected too
NegativeOrZero(l) == l # Nil /\ Millimeters(l) <= 0

Negative(l) == l # Nil /\ Millimeters(l) < 0

PageParametersValidate(p) ==
    IF Negative(p.PaperWidth) THEN NegativeErr("PaperWidth")
    ELSE IF Negative(p.PaperHeight) THEN NegativeErr("PaperHeight")
    ELSE IF Negative(p.MarginTop) THEN NegativeErr("MarginTop")
    ELSE IF Negative(p.MarginBottom) THEN NegativeErr("MarginBottom")
    ELSE IF Negative(p.MarginLeft) THEN NegativeErr("MarginLeft")
    ELSE IF Negative(p.MarginRight) THEN NegativeErr("MarginRight")
    ELSE IF p.PageSize # <<>> /\ ~IsAPageSize(p.PageSize[1])
    THEN E("invalid page size", <<>>, "")
    ELSE NoErr

\* Query.Validate with the content-type check ahead of the content check
QueryValidateContentTypeFirst(q) ==
    LET methodErr ==
            CASE q.Method = "web" ->
                    IF q.URL = "" THEN ErrMissingData ELSE NoErr
              [] q.Method \in {"dir", "html"} ->
                    IF q.ContentType = "" THEN ErrContentType
                    ELSE IF Len(q.Content) = 0 THEN ErrMissingData
                    ELSE NoErr
              [] OTHER -> E("undefined content query method: %s", <<q.Method>>, "")
    IN  IF methodErr # NoErr THEN methodErr
        ELSE IF PageParametersValidate(q.PageParameters) # NoErr
        THEN PageParametersValidate(q.PageParameters)
        ELSE RenderParametersValidate(q.RenderParameters)

QueryValidate(q) ==
    LET methodErr ==
            CASE q.Method = "web" ->
                    IF q.URL = "" THEN ErrMissingData ELSE NoErr
              [] q.Method \in {"dir", "html"} ->
                    IF Len(q.Content) = 0 THEN ErrMissingData
                    ELSE IF q.ContentType = "" THEN ErrContentType
                    ELSE NoErr
              [] OTHER -> E("undefined content query method: %s", <<q.Method>>, "")
    IN  IF methodErr # NoErr THEN methodErr
        ELSE IF PageParametersValidate(q.PageParameters) # NoErr
        THEN PageParametersValidate(q.PageParameters)
        ELSE RenderParametersValidate(q.RenderParameters)

\* the zero value of PageParameters, RenderParameters and Query
ZeroPageParameters ==
    [PaperWidth |-> Nil, PaperHeight |-> Nil, PageSize |-> <<>>, Orientation |-> Portrait,
     MarginTop |-> Nil, MarginBottom |-> Nil, MarginLeft |-> Nil, MarginRight |-> Nil]

ZeroRenderParameters == [WaitTime |-> 0, WaitReady |-> <<>>, WaitVisible |-> <<>>]

ZeroQuery ==
    [Content |-> <<>>, ContentType |-> "", URL |-> "", Method |-> "",
     PageParameters |-> ZeroPageParameters, RenderParameters |-> ZeroRenderParameters,
     TimeoutDuration |-> 0]

\* what is remembered of a call on the builder: its name, the Content passed (SetContent),
\* the builder [query, err] it was made on and what it returned (Query)
Call(op, content, before, ret) ==
    [op |-> op, content |-> content, before |-> before, ret |-> ret]

NoContent == [method |-> "", contentType |-> "", data |-> <<>>]
NoReturn == [ptr |-> FALSE, err |-> NoErr]
NoCall == Call("", NoContent, [query |-> ZeroQuery, err |-> NoErr], NoReturn)

----------------------------------------------------------------------------
(* Query values a caller can construct and hand to Query.Validate *)

Dimensions == {"PaperWidth", "PaperHeight", "MarginTop", "MarginBottom", "MarginLeft", "MarginRight"}

LengthInputs == {Nil, Millimeter(0), Millimeter(-1), Inch(2), Point(-3)}
NonNegativeInputs == {l \in LengthInputs : l # Nil /\ l.val >= 0}
PageSizeInputs == {<<>>, <<Undefined>>, <<Letter>>, <<Letter + 1>>, <<-1>>}

\* one wait-condition: valid ones at both ends of ByID..BySearch, and the invalid ones
SelectorInputs ==
    {BySelector("#a", ByID), BySelector("#b", BySearch), BySelector("", ByID),
     BySelector("#a", ByUndefined), BySelector("#a", BySearch + 1)}

SelectorLists == UNION {[1..n -> SelectorInputs] : n \in 0..MaxSel}

WaitTimeInputs == {0, Minute * 3, Minute * 3 + 1}

HTMLQuery ==
    [ZeroQuery EXCEPT !.Content = <<"<html>">>, !.ContentType = "text/html", !.Method = "html"]

\* method and content vary, with valid and invalid page and render parameters
ContentQuery(m, u, c, ct, mt, wt) ==
    [ZeroQuery EXCEPT !.Method = m, !.URL = u, !.Content = c, !.ContentType = ct,
                      !.PageParameters.MarginTop = mt, !.RenderParameters.WaitTime = wt]

\* the page parameters of an html query vary
PageQuery(pw, ph, ps, mt, mb, ml, mr) ==
    [HTMLQuery EXCEPT !.PageParameters =
        [PaperWidth |-> pw, PaperHeight |-> ph, PageSize |-> ps, Orientation |-> Portrait,
         MarginTop |-> mt, MarginBottom |-> mb, MarginLeft |-> ml, MarginRight |-> mr]]

\* the render parameters of an html query vary
RenderQuery(wt, wr, wv) ==
    [HTMLQuery EXCEPT !.RenderParameters =
        [WaitTime |-> wt, WaitReady |-> wr, WaitVisible |-> wv]]

----------------------------------------------------------------------------
(* The validation pass applied to a constructed Query *)

InitIdleBuilder ==
    /\ query = ZeroQuery
    /\ err = NoErr
    /\ returned = FALSE
    /\ snapshot = ZeroQuery
    /\ last = NoCall
    /\ ncalls = 0

InitIdleValidate ==
    /\ vq = ZeroQuery
    /\ verr = <<>>

InitIdleClient ==
    /\ cliTimeout = 0
    /\ conv = <<>>

\* no call of getGenerateRequest, of package sizes or of detectTrimHeight was made
NoGen ==
    [pc |-> "idle", q |-> ZeroQuery, body |-> <<>>,
     o |-> [Hostname |-> "", Port |-> 0, HTTPS |-> FALSE, Prefix |-> ""],
     req |-> [Method |-> "", URL |-> "", Header |-> <<>>]]
NoSz ==
    [op |-> "", chained |-> FALSE, p |-> 0, x |-> [unit |-> "", val |-> [n |-> 0, k |-> 0]],
     text |-> <<>>, val |-> 0, len |-> [unit |-> "", val |-> [n |-> 0, k |-> 0]], err |-> NoErr,
     cur |-> [unit |-> "", val |-> [num |-> 0, den |-> 1]], path |-> <<>>]
NoTrim == [pc |-> "idle", img |-> [W |-> 0, H |-> 0, px |-> <<>>], num |-> 0, den |-> 1, row |-> -1]

InitIdleRequest == gen = NoGen
InitIdleSizes == sz = NoSz
\* no layout running: the context, and what the last round of the loop did
NoContext ==
    [Page |-> 0, X |-> [num |-> 0, den |-> 1], Y |-> [num |-> 0, den |-> 1],
     PageHeight |-> 0, Margins |-> [Left |-> 0, Top |-> 0, Bottom |-> 0]]
NoRound ==
    [i |-> 0, newCtx |-> NoContext, trimHeight |-> [num |-> 0, den |-> 1],
     advanced |-> FALSE]
NoLay ==
    [pc |-> "idle", pages |-> <<>>, i |-> 0, ctx |-> NoContext, round |-> NoRound,
     order |-> <<>>, blocks |-> 0, err |-> NoErr]

InitIdleTrim == trim = NoTrim /\ lay = NoLay

\* context.Background(), and a context of the caller's that has no deadline
NoDeadline == -1
Background == [root |-> "background", deadline |-> NoDeadline, cancelled |-> FALSE]

\* the zero Document, no margins resolved, no health check made, no export running
ZeroMargins == [Left |-> Nil, Right |-> Nil, Bottom |-> Nil, Top |-> Nil]
ZeroDocument ==
    [content |-> <<>>, margins |-> ZeroMargins, position |-> "relative", posX |-> 0, posY |-> 0,
     pageSize |-> Undefined, pageWidth |-> Nil, pageHeight |-> Nil, orientation |-> Portrait,
     trimLast |-> FALSE, waitTime |-> 0, waitReady |-> <<>>, waitVisible |-> <<>>,
     timeout |-> <<>>]
NoResolved == [called |-> FALSE, stored |-> ZeroMargins, m |-> ZeroMargins]
NoHealth ==
    [called |-> FALSE, status |-> 0, err |-> NoErr, connects |-> 0, ret |-> NoErr,
     succeeded |-> FALSE]
NoExport ==
    [op |-> "", pc |-> "idle", start |-> 0, caller |-> Background, ctx |-> Background,
     own |-> 0, m |-> ZeroMargins, q |-> ZeroQuery, checked |-> NoErr, issued |-> 0,
     answered |-> -1, outcome |-> NoErr, data |-> <<>>, err |-> NoErr]

InitIdleDocument ==
    /\ doc = ZeroDocument
    /\ resolved = NoResolved
    /\ unihtmlClient = FALSE
    /\ health = NoHealth
    /\ exp = NoExport
    /\ now = 0
    /\ stat = [setters |-> 0, exports |-> 0, passed |-> 0, calls |-> 0]

InitIdleOther == InitIdleRequest /\ InitIdleSizes /\ InitIdleTrim /\ InitIdleDocument

InitValidate ==
    /\ \/ \E m \in {"web", "html", "dir", "other", ""}, u \in {"", "http://a"},
              c \in {<<>>, <<"<html>">>}, ct \in {"", "text/html"},
              mt \in {Nil, Millimeter(-1)}, wt \in {0, Minute * 3 + 1} :
                vq = ContentQuery(m, u, c, ct, mt, wt)
       \/ \E pw \in LengthInputs, ph \in LengthInputs, ps \in PageSizeInputs,
              mt \in LengthInputs, mb \in LengthInputs, ml \in LengthInputs,
              mr \in LengthInputs :
                vq = PageQuery(pw, ph, ps, mt, mb, ml, mr)
       \/ \E wt \in WaitTimeInputs, wr \in SelectorLists, wv \in SelectorLists :
                vq = RenderQuery(wt, wr, wv)
    /\ verr = <<>>
    /\ InitIdleBuilder
    /\ InitIdleClient
    /\ InitIdleOther

\* q.Validate()
Validate ==
    /\ verr = <<>>
    /\ verr' = <<QueryValidate(vq)>>
    /\ UNCHANGED <<vq, builderVars, clientVars, otherVars>>

\* the caller replaces the dimension the error names by a non-negative length and
\* validates the query again
Revalidate ==
    /\ Len(verr) = 1
    /\ \E d \in Dimensions, l \in NonNegativeInputs :
            /\ verr[1] = NegativeErr(d)
            /\ vq' = [vq EXCEPT !.PageParameters[d] = l]
            /\ verr' = Append(verr, QueryValidate(vq'))
    /\ UNCHANGED <<builderVars, clientVars, otherVars>>

NextValidate == Validate \/ Revalidate

SpecValidate == InitValidate /\ [][NextValidate]_vars

----------------------------------------------------------------------------
(* package content: what a Content yields *)

Content(method, contentType, data) ==
    [method |-> method, contentType |-> contentType, data |-> data]

\* string(content.Data()): bytes are a sequence holding the text, empty when there is none
BytesToString(data) == IF data = <<>> THEN "" ELSE data[1]

StringContent(html) == Content("html", "text/html", IF html = "" THEN <<>> ELSE <<html>>)
zipDirectory == Content("dir", "application/zip", <<"PK..">>)
webURL(path) == Content("web", "text/plain", IF path = "" THEN <<>> ELSE <<path>>)

\* the repository's constructors, and implementations of the Content interface by a caller
ContentInputs ==
    {StringContent("<html>"), StringContent(""), zipDirectory, webURL("http://a"),
     Content("html", "", <<"<p>">>), Content("dir", "", <<"PK..">>),
     Content("web", "", <<"http://b">>), Content("pdf", "application/pdf", <<"%PDF">>)}

----------------------------------------------------------------------------
(* package client: the QueryBuilder.  A builder b is [query, err]. *)

Builder(q, e) == [query |-> q, err |-> e]

BuildHTMLQuery == Builder(ZeroQuery, NoErr)

\* SetContent without the guard on a declared content type: the second content wins
SetContentOverwrites(b, c) ==
    IF b.err # NoErr THEN b
    ELSE CASE c.method \in {"dir", "html"} ->
                IF c.contentType = ""
                THEN Builder(b.query, E("empty custom content type", <<>>, ErrContentType.text))
                ELSE Builder([b.query EXCEPT !.Content = c.data, !.ContentType = c.contentType,
                                             !.Method = c.method], NoErr)
           [] c.method = "web" ->
                Builder([b.query EXCEPT !.URL = BytesToString(c.data),
                                        !.ContentType = c.contentType,
                                        !.Method = c.method], NoErr)
           [] OTHER -> Builder(b.query, E("invalid content method: %s", <<c.method>>, ""))

SetContent(b, c) ==
    IF b.err # NoErr THEN b
    ELSE CASE c.method \in {"dir", "html"} ->
                IF b.query.ContentType # "" THEN Builder(b.query, ErrContentTypeDeclared)
                ELSE IF c.contentType = ""
                THEN Builder(b.query, E("empty custom content type", <<>>, ErrContentType.text))
                ELSE Builder([b.query EXCEPT !.Content = c.data, !.ContentType = c.contentType,
                                             !.Method = c.method], NoErr)
           [] c.method = "web" ->
                IF b.query.ContentType # "" THEN Builder(b.query, ErrContentTypeDeclared)
                ELSE Builder([b.query EXCEPT !.URL = BytesToString(c.data),
                                             !.ContentType = c.contentType,
                                             !.Method = c.method], NoErr)
           [] OTHER -> Builder(b.query, E("invalid content method: %s", <<c.method>>, ""))

PageSize(b, pageSize) ==
    IF pageSize # Undefined
    THEN [b EXCEPT !.query.PageParameters.PageSize = <<pageSize>>]
    ELSE b

PaperWidth(b, l) == [b EXCEPT !.query.PageParameters.PaperWidth = l]
PaperHeight(b, l) == [b EXCEPT !.query.PageParameters.PaperHeight = l]
MarginTop(b, l) == [b EXCEPT !.query.PageParameters.MarginTop = l]
MarginBottom(b, l) == [b EXCEPT !.query.PageParameters.MarginBottom = l]
MarginLeft(b, l) == [b EXCEPT !.query.PageParameters.MarginLeft = l]
MarginRight(b, l) == [b EXCEPT !.query.PageParameters.MarginRight = l]

Orientation(b, o) == [b EXCEPT !.query.PageParameters.Orientation = o]
PortraitSetter(b) == [b EXCEPT !.query.PageParameters.Orientation = Portrait]
LandscapeSetter(b) == [b EXCEPT !.query.PageParameters.Orientation = Landscape]

TimeoutDuration(b, d) == [b EXCEPT !.query.TimeoutDuration = d]
WaitTime(b, d) == [b EXCEPT !.query.RenderParameters.WaitTime = d]

WaitReady(b, sel, by) ==
    [b EXCEPT !.query.RenderParameters.WaitReady = Append(@, BySelector(sel, by))]
WaitVisible(b, sel, by) ==
    [b EXCEPT !.query.RenderParameters.WaitVisible = Append(@, BySelector(sel, by))]

\* QueryBuilder.Validate, were the query looked at before the sticky error
BuilderValidateQueryFirst(b) ==
    IF QueryValidate(b.query) # NoErr THEN QueryValidate(b.query) ELSE b.err

\* QueryBuilder.Validate
BuilderValidate(b) == IF b.err # NoErr THEN b.err ELSE QueryValidate(b.query)

\* QueryBuilder.Query: [ptr, err], ptr being whether &q.query is returned
Query(b) ==
    IF BuilderValidate(b) # NoErr THEN [ptr |-> FALSE, err |-> BuilderValidate(b)]
    ELSE [ptr |-> TRUE, err |-> NoErr]

----------------------------------------------------------------------------
(* Calls made on one QueryBuilder *)

SetterLengths == {Millimeter(-1), Inch(2)}
SetterPageSizes == {Undefined, A4, Letter + 1}
SetterDurations == {0, 5 * Second}
SetterWaitTimes == {Minute, 3 * Minute + 1}
SetterSelectors ==
    {BySelector("#a", ByID), BySelector("", ByID), BySelector("#a", ByUndefined)}

InitBuilder ==
    /\ query = BuildHTMLQuery.query
    /\ err = BuildHTMLQuery.err
    /\ returned = FALSE
    /\ snapshot = ZeroQuery
    /\ last = NoCall
    /\ ncalls = 0
    /\ InitIdleValidate
    /\ InitIdleClient
    /\ InitIdleOther

\* a setter call op: the builder becomes b; what Query() returned earlier is not touched
Set(op, c, b) ==
    /\ ncalls < MaxCalls
    /\ ncalls' = ncalls + 1
    /\ query' = b.query
    /\ err' = b.err
    /\ last' = Call(op, c, Builder(query, err), NoReturn)
    /\ UNCHANGED <<returned, snapshot, validateVars, clientVars, otherVars>>

Self == Builder(query, err)

CallSetContent == \E c \in ContentInputs : Set("SetContent", c, SetContent(Self, c))
CallPageSize == \E ps \in SetterPageSizes : Set("PageSize", NoContent, PageSize(Self, ps))
CallPaperWidth == \E l \in SetterLengths : Set("PaperWidth", NoContent, PaperWidth(Self, l))
CallPaperHeight == \E l \in SetterLengths : Set("PaperHeight", NoContent, PaperHeight(Self, l))
CallMarginTop == \E l \in SetterLengths : Set("MarginTop", NoContent, MarginTop(Self, l))
CallMarginBottom == \E l \in SetterLengths : Set("MarginBottom", NoContent, MarginBottom(Self, l))
CallMarginLeft == \E l \in SetterLengths : Set("MarginLeft", NoContent, MarginLeft(Self, l))
CallMarginRight == \E l \in SetterLengths : Set("MarginRight", NoContent, MarginRight(Self, l))
CallOrientation ==
    \E o \in {Portrait, Landscape} : Set("Orientation", NoContent, Orientation(Self, o))
CallPortrait == Set("Portrait", NoContent, PortraitSetter(Self))
CallLandscape == Set("Landscape", NoContent, LandscapeSetter(Self))
CallTimeoutDuration ==
    \E d \in SetterDurations : Set("TimeoutDuration", NoContent, TimeoutDuration(Self, d))
CallWaitTime == \E d \in SetterWaitTimes : Set("WaitTime", NoContent, WaitTime(Self, d))
CallWaitReady ==
    /\ Len(query.RenderParameters.WaitReady) < MaxSel
    /\ \E c \in SetterSelectors : Set("WaitReady", NoContent, WaitReady(Self, c.Selector, c.By))
CallWaitVisible ==
    /\ Len(query.RenderParameters.WaitVisible) < MaxSel
    /\ \E c \in SetterSelectors : Set("WaitVisible", NoContent, WaitVisible(Self, c.Selector, c.By))

\* q.Query(): on success the caller holds &q.query, whose fields are the builder's own
CallQuery ==
    /\ ncalls < MaxCalls
    /\ ncalls' = ncalls + 1
    /\ last' = Call("Query", NoContent, Self, Query(Self))
    /\ returned' = (returned \/ Query(Self).ptr)
    /\ snapshot' = IF ~returned /\ Query(Self).ptr THEN query ELSE snapshot
    /\ UNCHANGED <<query, err, validateVars, clientVars, otherVars>>

NextBuilder ==
    \/ CallSetContent
    \/ CallPageSize
    \/ CallPaperWidth
    \/ CallPaperHeight
    \/ CallMarginTop
    \/ CallMarginBottom
    \/ CallMarginLeft
    \/ CallMarginRight
    \/ CallOrientation
    \/ CallPortrait
    \/ CallLandscape
    \/ CallTimeoutDuration
    \/ CallWaitTime
    \/ CallWaitReady
    \/ CallWaitVisible
    \/ CallQuery

SpecBuilder == InitBuilder /\ [][NextBuilder]_vars

----------------------------------------------------------------------------
(* package client: the Client and its conversion call *)

\* New: the http.Client of a Client made from options o; o.DefaultTimeout is overwritten
New(o) == [Timeout |-> Second * 30]

OptionInputs == {[DefaultTimeout |-> d] : d \in {0, 10 * Second}}

\* ConvertHTML's http.Client, were it the Client's own (a pointer) and not a copy of it
HTTPClientShared(timeout, q) ==
    IF q.TimeoutDuration # 0
    THEN [shared |-> q.TimeoutDuration, local |-> q.TimeoutDuration]
    ELSE [shared |-> timeout, local |-> timeout]

\* httpClient := *cli.Client, with the query's override set on the copy: the Timeout the
\* Client keeps (shared) and the one this call runs with (local)
HTTPClient(timeout, q) ==
    IF q.TimeoutDuration # 0
    THEN [shared |-> timeout, local |-> q.TimeoutDuration]
    ELSE [shared |-> timeout, local |-> timeout]

\* the switch on resp.StatusCode, with 200 taken for success as well
StatusErrOKToo(status) ==
    CASE status = 404 -> ErrNotFound
      [] status = 400 -> ErrBadRequest
      [] status = 501 -> ErrNotImplemented
      [] status = 401 -> ErrUnauthorized
      [] status = 408 -> ErrTimedOut
      [] status \in {200, 201} -> NoErr
      [] OTHER -> ErrInternalError

\* the switch on resp.StatusCode
StatusErr(status) ==
    CASE status = 404 -> ErrNotFound
      [] status = 400 -> ErrBadRequest
      [] status = 501 -> ErrNotImplemented
      [] status = 401 -> ErrUnauthorized
      [] status = 408 -> ErrTimedOut
      [] status = 201 -> NoErr
      [] OTHER -> ErrInternalError

\* A response body on the wire is [format, payload, intact]: the payload as sent raw or
\* as a gzip or deflate stream, and whether the stream arrives whole.
Body(format, payload, intact) == [format |-> format, payload |-> payload, intact |-> intact]

\* what a reader yields of a payload whose stream breaks off
Partial(payload) == IF payload = <<>> THEN <<>> ELSE SubSeq(payload, 1, Len(payload) - 1)

\* the bytes of the body as they are on the wire
WireBytes(body) ==
    IF body.format = "raw" THEN body.payload
    ELSE <<body.format \o "-stream">> \o body.payload

ErrGzipHeader == E("gzip: invalid header", <<>>, "")
ErrCorruptInput == E("flate: corrupt input", <<>>, "")
ErrUnexpectedEOF == E("unexpected EOF", <<>>, "")

\* the reader chosen by Content-Encoding and io.ReadAll on it:
\* [openErr, data, readErr], openErr being the error that ends the call at once
ReadBody(encoding, body) ==
    CASE encoding = "gzip" ->
            IF body.format # "gzip"
            THEN [openErr |-> ErrGzipHeader, data |-> <<>>, readErr |-> NoErr]
            ELSE IF body.intact
            THEN [openErr |-> NoErr, data |-> body.payload, readErr |-> NoErr]
            ELSE [openErr |-> NoErr, data |-> Partial(body.payload), readErr |-> ErrUnexpectedEOF]
      [] encoding = "deflate" ->
            IF body.format # "deflate"
            THEN [openErr |-> NoErr, data |-> <<>>, readErr |-> ErrCorruptInput]
            ELSE IF body.intact
            THEN [openErr |-> NoErr, data |-> body.payload, readErr |-> NoErr]
            ELSE [openErr |-> NoErr, data |-> Partial(body.payload), readErr |-> ErrUnexpectedEOF]
      [] encoding = "" ->
            IF body.intact
            THEN [openErr |-> NoErr, data |-> WireBytes(body), readErr |-> NoErr]
            ELSE [openErr |-> NoErr, data |-> Partial(WireBytes(body)), readErr |-> ErrUnexpectedEOF]
      [] OTHER ->
            [openErr |-> E("unsupported Content-Encoding: %s header", <<encoding>>, ""),
             data |-> <<>>, readErr |-> NoErr]

Response(status, encoding, jobID, body) ==
    [status |-> status, encoding |-> encoding, jobID |-> jobID, body |-> body]

NoResponse == Response(0, "", "", Body("raw", <<>>, TRUE))

\* what ConvertHTML returns: [resp, err], resp being <<>> for nil or <<PDFResponse>>
Return(resp, e) == [resp |-> resp, err |-> e]

PDFResponse(id, data) == [ID |-> id, Data |-> data]

\* ConvertHTML after the response arrived, were the status checked before the body is opened
HandleResponseStatusFirst(r) ==
    LET httpErr == StatusErr(r.status)
        read == ReadBody(r.encoding, r.body)
    IN  IF httpErr # NoErr THEN Return(<<>>, E("%s %w", read.data, httpErr.text))
        ELSE IF read.openErr # NoErr THEN Return(<<>>, read.openErr)
        ELSE IF read.readErr # NoErr
        THEN Return(<<>>, E("UniHTML server error %s", <<read.readErr.text>>, ""))
        ELSE Return(<<PDFResponse(r.jobID, read.data)>>, NoErr)

\* ConvertHTML after the response arrived: status mapping, decoding, result
HandleResponse(r) ==
    LET httpErr == StatusErr(r.status)
        read == ReadBody(r.encoding, r.body)
    IN  IF read.openErr # NoErr THEN Return(<<>>, read.openErr)
        ELSE IF read.readErr # NoErr /\ httpErr = NoErr
        THEN Return(<<>>, E("UniHTML server error %s", <<read.readErr.text>>, ""))
        ELSE IF httpErr # NoErr THEN Return(<<>>, E("%s %w", read.data, httpErr.text))
        ELSE Return(<<PDFResponse(r.jobID, read.data)>>, NoErr)

----------------------------------------------------------------------------
(* Conversion calls on one Client *)

Callers == 1..NumCallers

\* a caller's call: where it stands, its query, the Timeout of its http.Client, the
\* response received, the mapped status error, what was returned, and the Timeout its
\* previous call ran with (0: none)
Idle(prev) ==
    [pc |-> "idle", q |-> ZeroQuery, timeout |-> 0, resp |-> NoResponse,
     httpErr |-> NoErr, ret |-> Return(<<>>, NoErr), prev |-> prev]

WebQuery == [ZeroQuery EXCEPT !.URL = "http://a", !.ContentType = "text/plain", !.Method = "web"]

ConvertQueries ==
    {ZeroQuery, WebQuery} \cup
    {[HTMLQuery EXCEPT !.TimeoutDuration = d] : d \in {0, 5 * Second, 60 * Second}}

\* a query without and one with a timeout override
OverrideQueries == {[HTMLQuery EXCEPT !.TimeoutDuration = d] : d \in {0, 5 * Second}}

StatusInputs == {200, 201, 204, 400, 401, 403, 404, 408, 500, 501, 502}
EncodingInputs == {"", "gzip", "deflate", "br", "GZIP"}
PayloadInputs == {<<>>, <<"diagnostic">>, <<"%PDF", "%%EOF">>}
BodyInputs ==
    {Body(f, p, i) : f \in {"raw", "gzip", "deflate"}, p \in PayloadInputs, i \in BOOLEAN}

Responses ==
    {Response(st, enc, id, b) :
        st \in StatusInputs, enc \in EncodingInputs, id \in {"", "job-1"}, b \in BodyInputs}

\* the responses of a server that answers 201 or 400 with a well-formed body
PlainResponses ==
    {Response(st, "", "job-1", Body("raw", <<"diagnostic">>, TRUE)) : st \in {201, 400}}

TransportErrors ==
    {E("dial tcp: connection refused", <<>>, ""),
     E("context deadline exceeded (Client.Timeout exceeded while awaiting headers)", <<>>, "")}

InitClient ==
    /\ \E o \in OptionInputs : cliTimeout = New(o).Timeout
    /\ conv = [c \in Callers |-> Idle(0)]
    /\ InitIdleBuilder
    /\ InitIdleValidate
    /\ InitIdleOther

\* ConvertHTML is entered with a query of qs: q.Validate() and getGenerateRequest
Begin(c, qs) ==
    /\ conv[c].pc = "idle"
    /\ \E q \in qs :
            conv' = [conv EXCEPT ![c] =
                IF QueryValidate(q) # NoErr
                THEN [@ EXCEPT !.pc = "done", !.q = q, !.ret = Return(<<>>, QueryValidate(q))]
                ELSE [@ EXCEPT !.pc = "request", !.q = q]]
    /\ UNCHANGED <<cliTimeout, builderVars, validateVars, otherVars>>

\* httpClient := *cli.Client; the override, if any, is set on it
CopyClient(c) ==
    /\ conv[c].pc = "request"
    /\ cliTimeout' = HTTPClient(cliTimeout, conv[c].q).shared
    /\ conv' = [conv EXCEPT ![c].pc = "do",
                             ![c].timeout = HTTPClient(cliTimeout, conv[c].q).local]
    /\ UNCHANGED <<builderVars, validateVars, otherVars>>

\* httpClient.Do(req) fails
DoFails(c) ==
    /\ conv[c].pc = "do"
    /\ \E e \in TransportErrors :
            conv' = [conv EXCEPT ![c].pc = "done", ![c].ret = Return(<<>>, e)]
    /\ UNCHANGED <<cliTimeout, builderVars, validateVars, otherVars>>

\* httpClient.Do(req) yields a response of rs, which is handled to the end of ConvertHTML
DoResponds(c, rs) ==
    /\ conv[c].pc = "do"
    /\ \E r \in rs :
            conv' = [conv EXCEPT ![c].pc = "done", ![c].resp = r,
                                 ![c].httpErr = StatusErr(r.status),
                                 ![c].ret = HandleResponse(r)]
    /\ UNCHANGED <<cliTimeout, builderVars, validateVars, otherVars>>

\* the caller has its result and may call again
Finish(c) ==
    /\ conv[c].pc = "done"
    /\ conv' = [conv EXCEPT ![c] = Idle(conv[c].timeout)]
    /\ UNCHANGED <<cliTimeout, builderVars, validateVars, otherVars>>

\* one caller, any response
NextConvert ==
    \/ Begin(1, ConvertQueries)
    \/ CopyClient(1)
    \/ DoFails(1)
    \/ DoResponds(1, Responses)
    \/ Finish(1)

\* the other callers stay idle
SpecConvert == InitClient /\ [][NextConvert]_vars

\* concurrent callers
NextConcurrent ==
    \E c \in Callers :
        \/ Begin(c, OverrideQueries)
        \/ CopyClient(c)
        \/ DoFails(c)
        \/ DoResponds(c, PlainResponses)
        \/ Finish(c)

SpecConcurrent == InitClient /\ [][NextConcurrent]_vars

----------------------------------------------------------------------------
(* package sizes: the names of the page sizes and the textual form of a Length. *)
(* A Go string is the sequence of its characters; a float64 that is a decimal    *)
(* number is [n, k], the number n / 10^k with no trailing zero in its fraction.  *)

\* s[i:j]
Slice(s, i, j) == SubSeq(s, i + 1, j)

Digit == <<"0", "1", "2", "3", "4", "5", "6", "7", "8", "9">>

IsDigit(c) == \E i \in 1..Len(Digit) : Digit[i] = c
DigitVal(c) == (CHOOSE i \in 1..Len(Digit) : Digit[i] = c) - 1
AllDigits(s) == \A i \in 1..Len(s) : IsDigit(s[i])

\* the decimal digits of n >= 0, and the number they spell
RECURSIVE Itoa(_)
Itoa(n) ==
    IF n < 10 THEN <<Digit[n + 1]>>
    ELSE Itoa(n \div 10) \o <<Digit[(n % 10) + 1]>>

RECURSIVE Atoi(_)
Atoi(s) ==
    IF s = <<>> THEN 0
    ELSE Atoi(SubSeq(s, 1, Len(s) - 1)) * 10 + DigitVal(s[Len(s)])

\* %d
FormatInt(n) == IF n < 0 THEN <<"-">> \o Itoa(-n) ELSE Itoa(n)

RECURSIVE Dec(_, _)
Dec(n, k) ==
    IF k > 0 /\ n % 10 = 0 THEN Dec(n \div 10, k - 1)
    ELSE [n |-> n, k |-> k]

pageSizeNames ==
    <<"U", "n", "d", "e", "f", "i", "n", "e", "d", "A", "0", "A", "1", "A", "2", "A",
      "3", "A", "4", "A", "5", "A", "6", "A", "7", "A", "8", "A", "9", "A", "1", "0",
      "B", "0", "B", "1", "B", "2", "B", "3", "B", "4", "B", "5", "B", "6", "B", "7",
      "B", "8", "B", "9", "B", "1", "0", "L", "e", "t", "t", "e", "r">>

\* pageSizeIdx[i] of the source is pageSizeIdx[i + 1] here
pageSizeIdx ==
    <<0, 9, 11, 13, 15, 17, 19, 21, 23, 25, 27, 29,
      32, 34, 36, 38, 40, 42, 44, 46, 48, 50, 52, 55, 61>>

\* PageSize.String with the lower range check off by one
PageSize_StringFromOne(p) ==
    IF p <= 0 \/ p >= Len(pageSizeIdx) - 1
    THEN <<"P", "a", "g", "e", "S", "i", "z", "e", "(">> \o FormatInt(p) \o <<")">>
    ELSE Slice(pageSizeNames, pageSizeIdx[p + 1], pageSizeIdx[p + 2])

\* PageSize.String
PageSize_String(p) ==
    IF p < 0 \/ p >= Len(pageSizeIdx) - 1
    THEN <<"P", "a", "g", "e", "S", "i", "z", "e", "(">> \o FormatInt(p) \o <<")">>
    ELSE Slice(pageSizeNames, pageSizeIdx[p + 1], pageSizeIdx[p + 2])

\* init(): for i := range pageSizes, the name cut out of pageSizeNames is mapped to i;
\* a later i overwrites an earlier one of the same name
pageSizeMap ==
    LET name(i) == Slice(pageSizeNames, pageSizeIdx[i + 1], pageSizeIdx[i + 2])
    IN  [s \in {name(i) : i \in pageSizes} |->
            CHOOSE i \in pageSizes :
                name(i) = s /\ \A j \in pageSizes : name(j) = s => j <= i]

\* PageSizeString: [val, err]
PageSizeString(s) ==
    IF s \in DOMAIN pageSizeMap THEN [val |-> pageSizeMap[s], err |-> NoErr]
    ELSE [val |-> 0, err |-> E("%s does not belong to PageSize values", <<s>>, "")]

\* (*PageSize).UnmarshalText on a receiver holding p: [p, err]
UnmarshalText(p, text) ==
    IF PageSizeString(text).err # NoErr THEN [p |-> p, err |-> PageSizeString(text).err]
    ELSE [p |-> PageSizeString(text).val, err |-> NoErr]

\* strings.HasSuffix, TrimSuffix, Trim and TrimSpace
HasSuffix(s, suffix) ==
    Len(s) >= Len(suffix) /\ SubSeq(s, Len(s) - Len(suffix) + 1, Len(s)) = suffix

TrimSuffix(s, suffix) ==
    IF HasSuffix(s, suffix) THEN SubSeq(s, 1, Len(s) - Len(suffix)) ELSE s

RECURSIVE TrimLeft(_, _)
TrimLeft(s, cutset) ==
    IF s # <<>> /\ s[1] \in cutset THEN TrimLeft(Tail(s), cutset) ELSE s

RECURSIVE TrimRight(_, _)
TrimRight(s, cutset) ==
    IF s # <<>> /\ s[Len(s)] \in cutset THEN TrimRight(SubSeq(s, 1, Len(s) - 1), cutset)
    ELSE s

Trim(s, cutset) == TrimLeft(TrimRight(s, cutset), cutset)

\* the literals hold no white space but the space
TrimSpace(s) == Trim(s, {" "})

\* strconv.FormatFloat(x, 'f', 1, 64) of a number with at most one decimal digit
FormatFloat(x) ==
    LET tenths == IF x.k = 0 THEN x.n * 10 ELSE x.n
        mag == IF tenths < 0 THEN -tenths ELSE tenths
    IN  (IF tenths < 0 THEN <<"-">> ELSE <<>>)
            \o Itoa(mag \div 10) \o <<".">> \o <<Digit[(mag % 10) + 1]>>

\* strconv.ParseFloat(s, 64) of a literal without exponent, base prefix, inf or nan:
\* an optional sign, digits and at most one point, with one digit at least
ParseFloat(s) ==
    LET signed == s # <<>> /\ s[1] \in {"+", "-"}
        body == IF signed THEN Tail(s) ELSE s
        points == {i \in 1..Len(body) : body[i] = "."}
        point == IF points = {} THEN Len(body) + 1
                 ELSE CHOOSE i \in points : \A j \in points : i <= j
        int == SubSeq(body, 1, point - 1)
        frac == SubSeq(body, point + 1, Len(body))
        mag == Atoi(int \o frac)
    IN  IF AllDigits(int) /\ AllDigits(frac) /\ Len(int) + Len(frac) > 0
        THEN [val |-> Dec(IF signed /\ s[1] = "-" THEN -mag ELSE mag, Len(frac)),
              err |-> NoErr]
        ELSE [val |-> Dec(0, 0),
              err |-> E("strconv.ParseFloat: parsing %q: invalid syntax", <<s>>, "")]

Millimeter_String(m) == FormatFloat(m) \o <<"m", "m">>
Inch_String(i) == FormatFloat(i) \o <<"i", "n">>
Point_String(p) == FormatFloat(p) \o <<"p", "t">>

\* Length.String, by the dynamic type of the Length
Length_String(l) ==
    CASE l.unit = "mm" -> Millimeter_String(l.val)
      [] l.unit = "in" -> Inch_String(l.val)
      [] l.unit = "pt" -> Point_String(l.val)

\* parseMillimeter, parseInch, parsePoint: [len, err]
parseMillimeter(s) ==
    LET f == ParseFloat(TrimSpace(TrimSuffix(s, <<"m", "m">>)))
    IN  IF f.err # NoErr
        THEN [len |-> Millimeter(Dec(0, 0)),
              err |-> E("invalid millimeter value: %w", <<>>, f.err.text)]
        ELSE [len |-> Millimeter(f.val), err |-> NoErr]

parseInch(s) ==
    LET f == ParseFloat(TrimSpace(TrimSuffix(s, <<"i", "n">>)))
    IN  IF f.err # NoErr
        THEN [len |-> Inch(Dec(0, 0)), err |-> E("invalid inch value: %w", <<>>, f.err.text)]
        ELSE [len |-> Inch(f.val), err |-> NoErr]

parsePoint(s) ==
    LET f == ParseFloat(TrimSpace(Trim(s, {"p", "t"})))
    IN  IF f.err # NoErr THEN [len |-> Point(Dec(0, 0)), err |-> f.err]
        ELSE [len |-> Point(f.val), err |-> NoErr]

\* the nil Length UnmarshalLength returns with an error
NilLength == [unit |-> "", val |-> Dec(0, 0)]

UnmarshalLength(length) ==
    IF HasSuffix(length, <<"m", "m">>) THEN parseMillimeter(length)
    ELSE IF HasSuffix(length, <<"i", "n">>) THEN parseInch(length)
    ELSE IF HasSuffix(length, <<"p", "t">>) THEN parsePoint(length)
    ELSE [len |-> NilLength, err |-> E("invalid length input: %s", <<length>>, "")]

----------------------------------------------------------------------------
(* package sizes: conversions between the units.  A float64 is held here as the exact  *)
(* quotient [num, den] in lowest terms, den > 0: the constants are the decimals written *)
(* in the source, products are exact, and the rounding of float64 (a relative 2^-53)    *)
(* is left out.  A converted length is [unit, val] with such a val.                     *)

Abs(d) == IF d < 0 THEN -d ELSE d

RECURSIVE GCD(_, _)
GCD(a, b) == IF b = 0 THEN a ELSE GCD(b, a % b)

Rat(n, d) ==
    LET g == GCD(Abs(n), d)
    IN  IF n = 0 THEN [num |-> 0, den |-> 1] ELSE [num |-> n \div g, den |-> d \div g]

Mul(a, b) ==
    LET g1 == GCD(Abs(a.num), b.den)
        g2 == GCD(Abs(b.num), a.den)
    IN  IF a.num = 0 \/ b.num = 0 THEN [num |-> 0, den |-> 1]
        ELSE [num |-> (a.num \div g1) * (b.num \div g2),
              den |-> (a.den \div g2) * (b.den \div g1)]

\* the conversion constants: inchToMm and pointToMm are defined above in 1/10000
mmToInch == Rat(10, 254)
inchToPoint == Rat(1, 64)
mmToPoint == Rat(10000, pointToMm)
pointToInch == Rat(139, 10000)

\* the methods Millimeters, Inches and Points of Millimeter, Inch and Point
Millimeter_Inches(m) == [unit |-> "in", val |-> Mul(m.val, mmToInch)]
Millimeter_Points(m) == [unit |-> "pt", val |-> Mul(m.val, mmToPoint)]
Inch_Millimeters(i) == [unit |-> "mm", val |-> Mul(i.val, Rat(inchToMm, 10000))]
Inch_Points(i) == [unit |-> "pt", val |-> Mul(i.val, inchToPoint)]
Point_Millimeters(p) == [unit |-> "mm", val |-> Mul(p.val, Rat(pointToMm, 10000))]
Point_Inches(p) == [unit |-> "in", val |-> Mul(p.val, pointToInch)]

\* Length.Millimeters(), Inches() and Points(), by the dynamic type of the Length
Length_Millimeters(l) ==
    CASE l.unit = "mm" -> l
      [] l.unit = "in" -> Inch_Millimeters(l)
      [] l.unit = "pt" -> Point_Millimeters(l)

Length_Inches(l) ==
    CASE l.unit = "mm" -> Millimeter_Inches(l)
      [] l.unit = "in" -> l
      [] l.unit = "pt" -> Point_Inches(l)

Length_Points(l) ==
    CASE l.unit = "mm" -> Millimeter_Points(l)
      [] l.unit = "in" -> Inch_Points(l)
      [] l.unit = "pt" -> l

----------------------------------------------------------------------------
(* Calls into package sizes *)

\* conversions made in a row of one length
MaxConversions == 2

\* tenths a length value counts at most, either side of zero
MaxTenths == 12

PageSizeArgs == (Undefined - 1)..(Letter + 1)

NameInputs ==
    {<<"b", "o", "g", "u", "s">>, <<"a", "4">>, <<"A", "1", "1">>, <<>>,
     <<"L", "e", "t", "t", "e", "r", " ">>,
     <<"P", "a", "g", "e", "S", "i", "z", "e", "(", "2", "4", ")">>, <<"A", "1">>,
     <<"B", "1", "0">>}

\* the lengths of one decimal digit
LengthValues ==
    {Millimeter(Dec(t, 1)) : t \in -MaxTenths..MaxTenths}
        \cup {Inch(Dec(t, 1)) : t \in -MaxTenths..MaxTenths}
        \cup {Point(Dec(t, 1)) : t \in -MaxTenths..MaxTenths}

LiteralInputs ==
    {<<"1", ".", "5", "p", "t", "p", "t">>, <<"p", "1", ".", "5", "p", "t">>, <<"t">>,
     <<"p", "t">>, <<"1", ".", "5", "m", "m", "m", "m">>, <<"1", ".", "5">>,
     <<"x", "m", "m">>, <<"2", " ", "m", "m">>, <<"1", ".", "5", "c", "m">>, <<>>,
     <<"m", "m">>, <<"-", "0", ".", "5", "i", "n">>, <<"1", ".", ".", "5", "m", "m">>,
     <<"1", ".", "5", "i", "n", "i", "n">>, <<"+", "3", ".", "p", "t">>,
     <<".", "5", "i", "n">>, <<"1", ".", "2", "5", "m", "m">>, <<"1", "2", "i", "n">>,
     <<"-", "m", "m">>, <<"1", ".", "5", " ", "p", "t">>, <<"7", "P", "T">>}

InitSizes ==
    /\ sz = NoSz
    /\ InitIdleBuilder
    /\ InitIdleValidate
    /\ InitIdleClient
    /\ InitIdleRequest
    /\ InitIdleTrim
    /\ InitIdleDocument

SizesCall(call) ==
    /\ sz' = call
    /\ UNCHANGED <<builderVars, validateVars, clientVars, requestVars, trimVars, documentVars>>

\* p.String()
CallPageSize_String ==
    /\ sz = NoSz
    /\ \E p \in PageSizeArgs :
            SizesCall([NoSz EXCEPT !.op = "PageSize.String", !.p = p,
                                   !.text = PageSize_String(p)])

\* PageSizeString(s), s being the name p.String() gave or a name of the caller's
CallPageSizeString ==
    \/ /\ sz.op = "PageSize.String"
       /\ SizesCall([sz EXCEPT !.op = "PageSizeString", !.chained = TRUE,
                               !.val = PageSizeString(sz.text).val,
                               !.err = PageSizeString(sz.text).err])
    \/ /\ sz = NoSz
       /\ \E s \in NameInputs :
            SizesCall([NoSz EXCEPT !.op = "PageSizeString", !.text = s,
                                   !.val = PageSizeString(s).val,
                                   !.err = PageSizeString(s).err])

\* p.UnmarshalText(s) on a PageSize variable holding p
CallUnmarshalText ==
    /\ sz = NoSz
    /\ \E p \in pageSizes, s \in NameInputs :
            SizesCall([NoSz EXCEPT !.op = "UnmarshalText", !.p = p, !.text = s,
                                   !.val = UnmarshalText(p, s).p,
                                   !.err = UnmarshalText(p, s).err])

\* l.String()
CallLength_String ==
    /\ sz = NoSz
    /\ \E l \in LengthValues :
            SizesCall([NoSz EXCEPT !.op = "Length.String", !.x = l,
                                   !.text = Length_String(l)])

\* UnmarshalLength(s), s being the text l.String() gave or a literal of the caller's
CallUnmarshalLength ==
    \/ /\ sz.op = "Length.String"
       /\ SizesCall([sz EXCEPT !.op = "UnmarshalLength", !.chained = TRUE,
                               !.len = UnmarshalLength(sz.text).len,
                               !.err = UnmarshalLength(sz.text).err])
    \/ /\ sz = NoSz
       /\ \E s \in LiteralInputs :
            SizesCall([NoSz EXCEPT !.op = "UnmarshalLength", !.text = s,
                                   !.len = UnmarshalLength(s).len,
                                   !.err = UnmarshalLength(s).err])

\* the length x as a quotient
Exact(x) == [unit |-> x.unit, val |-> Rat(x.val.n, IF x.val.k = 0 THEN 1 ELSE 10)]

\* the constant a conversion multiplies by
Factor(from, to) ==
    CASE from = to -> Rat(1, 1)
      [] from = "mm" /\ to = "in" -> mmToInch
      [] from = "mm" /\ to = "pt" -> mmToPoint
      [] from = "in" /\ to = "mm" -> Rat(inchToMm, 10000)
      [] from = "in" /\ to = "pt" -> inchToPoint
      [] from = "pt" /\ to = "mm" -> Rat(pointToMm, 10000)
      [] from = "pt" /\ to = "in" -> pointToInch

\* the product of a and b can be held as a quotient of two integers below 2^30
Fits(a, b) ==
    LET g1 == GCD(Abs(a.num), b.den)
        g2 == GCD(Abs(b.num), a.den)
    IN  \/ a.num = 0
        \/ /\ Abs(a.num) \div g1 <= 2^30 \div (b.num \div g2)
           /\ a.den \div g2 <= 2^30 \div (b.den \div g1)

\* a conversion to the unit to, of a length of the caller's or of the length the last
\* conversion gave
Convert(op, to, f(_)) ==
    \/ /\ sz = NoSz
       /\ \E l \in LengthValues :
            SizesCall([NoSz EXCEPT !.op = op, !.x = l, !.cur = f(Exact(l)),
                                   !.path = <<l.unit, to>>])
    \/ /\ sz.path # <<>>
       /\ Len(sz.path) <= MaxConversions
       /\ Fits(sz.cur.val, Factor(sz.cur.unit, to))
       /\ SizesCall([sz EXCEPT !.op = op, !.cur = f(sz.cur), !.path = Append(@, to)])

\* l.Millimeters(), l.Inches(), l.Points()
CallMillimeters == Convert("Millimeters", "mm", Length_Millimeters)
CallInches == Convert("Inches", "in", Length_Inches)
CallPoints == Convert("Points", "pt", Length_Points)

NextSizes ==
    \/ CallMillimeters
    \/ CallInches
    \/ CallPoints
    \/ CallPageSize_String
    \/ CallPageSizeString
    \/ CallUnmarshalText
    \/ CallLength_String
    \/ CallUnmarshalLength

SpecSizes == InitSizes /\ [][NextSizes]_vars

----------------------------------------------------------------------------
(* detectTrimHeight.  An image is [W, H, px]: its bounds are (0,0)-(W,H) and px[<<x, y>>] *)
(* is the colour [r, g, b] that At(x, y).RGBA() yields, row 0 being the top row.         *)

MaxUint16 == 65535

Colour(r, g, b) == [r |-> r, g |-> g, b |-> b]

\* |c - r| / MaxUint16 > 0.03, the quotient of two integers being compared exactly
Exceeds(c, r) == Abs(c - r) * 100 > 3 * MaxUint16

\* the test of a pixel against the reference, were all three channels required to differ
hasContentEveryChannel(ref, c) ==
    LET isWhite == ref.r = MaxUint16 /\ ref.g = MaxUint16 /\ ref.b = MaxUint16
    IN  \/ isWhite /\ ~(c.r = ref.r /\ c.g = ref.g /\ c.b = ref.b)
        \/ ~isWhite /\ (Exceeds(c.r, ref.r) /\ Exceeds(c.g, ref.g) /\ Exceeds(c.b, ref.b))

\* the test of a pixel c against the reference pixel
hasContent(ref, c) ==
    LET isWhite == ref.r = MaxUint16 /\ ref.g = MaxUint16 /\ ref.b = MaxUint16
    IN  \/ isWhite /\ ~(c.r = ref.r /\ c.g = ref.g /\ c.b = ref.b)
        \/ ~isWhite /\ (Exceeds(c.r, ref.r) \/ Exceeds(c.g, ref.g) \/ Exceeds(c.b, ref.b))

\* ref := img.At(bounds.Min.X, bounds.Max.Y-1)
Reference(img) == img.px[<<0, img.H - 1>>]

\* the inner loop over x
rowHasContent(img, y) ==
    \E x \in 0..(img.W - 1) : hasContent(Reference(img), img.px[<<x, y>>])

\* the outer loop from row y upwards: the row it breaks at (-1: none) and lastNonEmptyY
RECURSIVE scan(_, _, _)
scan(img, y, lastNonEmptyY) ==
    IF y < 0 THEN [row |-> -1, lastNonEmptyY |-> lastNonEmptyY]
    ELSE IF rowHasContent(img, y) THEN [row |-> y, lastNonEmptyY |-> lastNonEmptyY]
    ELSE scan(img, y - 1, y)

\* detectTrimHeight: the quotient num / den it returns, and the row the scan broke at
detectTrimHeight(img) ==
    [num |-> img.H - scan(img, img.H - 1, 0).lastNonEmptyY,
     den |-> img.H,
     row |-> scan(img, img.H - 1, 0).row]

----------------------------------------------------------------------------
(* Images handed to detectTrimHeight *)

\* rows an image has at most
MaxHeight == 3

\* pixels a row holds
ImgWidth == 2

White == Colour(MaxUint16, MaxUint16, MaxUint16)
Grey == Colour(32768, 32768, 32768)

Shifts == {-40000, -1967, -1966, -1, 1, 1966, 1967}

Shifted(c, ch, d) == [c EXCEPT ![ch] = @ + d]

InRange(c) == \A ch \in {"r", "g", "b"} : c[ch] >= 0 /\ c[ch] <= MaxUint16

Pixels(w, h) == (0..(w - 1)) \X (0..(h - 1))

Uniform(w, h, bg) == [W |-> w, H |-> h, px |-> [xy \in Pixels(w, h) |-> bg]]

\* a uniform image, and one with a single pixel shifted on one channel
OnePixel(w, h, bg, at, c) == [Uniform(w, h, bg) EXCEPT !.px[at] = c]

InitTrim ==
    /\ lay = NoLay
    /\ \E h \in 1..MaxHeight, bg \in {White, Grey} :
        \/ trim = [NoTrim EXCEPT !.pc = "ready", !.img = Uniform(ImgWidth, h, bg)]
        \/ \E at \in Pixels(ImgWidth, h), ch \in {"r", "g", "b"}, d \in Shifts :
                /\ InRange(Shifted(bg, ch, d))
                /\ trim = [NoTrim EXCEPT !.pc = "ready",
                                         !.img = OnePixel(ImgWidth, h, bg, at, Shifted(bg, ch, d))]
    /\ InitIdleBuilder
    /\ InitIdleValidate
    /\ InitIdleClient
    /\ InitIdleRequest
    /\ InitIdleSizes
    /\ InitIdleDocument

\* trimRatio := detectTrimHeight(img)
DetectTrimHeight ==
    /\ trim.pc = "ready"
    /\ trim' = [trim EXCEPT !.pc = "done",
                            !.num = detectTrimHeight(trim.img).num,
                            !.den = detectTrimHeight(trim.img).den,
                            !.row = detectTrimHeight(trim.img).row]
    /\ UNCHANGED <<lay, builderVars, validateVars, clientVars, requestVars, sizesVars, documentVars>>

NextTrim == DetectTrimHeight

SpecTrim == InitTrim /\ [][NextTrim]_vars

----------------------------------------------------------------------------
(* package client: the body of the conversion request.  The JSON object is a function *)
(* of its keys; a key that is omitted is not in its domain.                            *)

\* nanoseconds a millisecond holds: time.Duration counts nanoseconds
Millisecond == 1000000

\* int64(d) of a time.Duration d
Int64(d) == d * Millisecond

JSONNull == "null"

\* A length of t tenths of its unit, t >= 0: val units and tenth tenths.  A length
\* without the field tenth is a whole number of units.
Tenths(unit, t) == [unit |-> unit, val |-> t \div 10, tenth |-> t % 10]

\* %.0f of a length: the nearest whole number, a half going to the even one
RoundToEven(l) ==
    IF "tenth" \notin DOMAIN l THEN l.val
    ELSE IF l.tenth > 5 \/ (l.tenth = 5 /\ l.val % 2 = 1) THEN l.val + 1
    ELSE l.val

\* sizes.MarshalUnit: %.0f and the unit
MarshalUnit(l) ==
    CASE l.unit = "mm" -> FormatInt(RoundToEven(l)) \o <<"m", "m">>
      [] l.unit = "in" -> FormatInt(RoundToEven(l)) \o <<"i", "n">>
      [] l.unit = "pt" -> FormatInt(RoundToEven(l)) \o <<"p", "t">>

\* a Length field of the body
MarshalLength(l) == IF l = Nil THEN JSONNull ELSE MarshalUnit(l)

\* reqData of getGenerateRequest, field by JSON key
ReqData(q) ==
    [method |-> q.Method,
     content |-> IF q.Method \in {"dir", "html"} THEN q.Content ELSE <<>>,
     contentType |-> IF q.Method \in {"dir", "html"} THEN q.ContentType ELSE "",
     contentURL |-> IF q.Method = "web" THEN q.URL ELSE "",
     expiresAt |-> 0,
     timeoutDuration |-> Int64(q.TimeoutDuration),
     paperWidth |-> MarshalLength(q.PageParameters.PaperWidth),
     paperHeight |-> MarshalLength(q.PageParameters.PaperHeight),
     pageSize |-> IF q.PageParameters.PageSize = <<>> THEN JSONNull
                  ELSE PageSize_String(q.PageParameters.PageSize[1]),
     orientation |-> q.PageParameters.Orientation,
     marginTop |-> MarshalLength(q.PageParameters.MarginTop),
     marginBottom |-> MarshalLength(q.PageParameters.MarginBottom),
     marginLeft |-> MarshalLength(q.PageParameters.MarginLeft),
     marginRight |-> MarshalLength(q.PageParameters.MarginRight),
     waitTime |-> Int64(q.RenderParameters.WaitTime),
     waitReady |-> q.RenderParameters.WaitReady,
     waitVisible |-> q.RenderParameters.WaitVisible]

\* the keys json.Encoder writes: timeoutDuration is tagged omitempty
EncodedKeys(reqData) ==
    DOMAIN reqData \ (IF reqData.timeoutDuration = 0 THEN {"timeoutDuration"} ELSE {})

\* getGenerateRequest: the body of the POST to /v1/pdf
getGenerateRequest(q) == [key \in EncodedKeys(ReqData(q)) |-> ReqData(q)[key]]

\* the Options a Client keeps: New fills in the port and the host that are not given
NewOptions(o) ==
    [o EXCEPT !.Port = IF o.Port <= 0 THEN 8080 ELSE o.Port,
              !.Hostname = IF o.Hostname = "" THEN "127.0.0.1" ELSE o.Hostname]

RECURSIVE Join(_)
Join(chars) == IF chars = <<>> THEN "" ELSE Head(chars) \o Join(Tail(chars))

\* Options.Addr
Addr(o) ==
    "http" \o (IF o.HTTPS THEN "s" ELSE "") \o "://" \o o.Hostname \o ":"
        \o Join(Itoa(o.Port)) \o o.Prefix

\* the http.Request of getGenerateRequest, cli.Options being o
NewRequest(o) ==
    [Method |-> "POST",
     URL |-> Addr(o) \o "/v1/pdf",
     Header |-> ("Content-Type" :> "application/json")
                    @@ ("Accept-Encoding" :> "deflate, gzip;q=1.0, *;q=0.5")]

----------------------------------------------------------------------------
(* Requests built for valid queries *)

\* override and wait time are small enough for their nanoseconds to be counted
RequestDurations == {0, 1, 250, 2 * Second}

RequestContents == {StringContent("<html>"), zipDirectory, webURL("http://a")}

\* margins of a query: none, 10 mm, 1 in, and 0.5 in, 8.5 in, 2.4 mm and 12.6 pt
RequestLengths ==
    {Nil, Millimeter(10), Inch(1), Tenths("in", 5), Tenths("in", 85), Tenths("mm", 24),
     Tenths("pt", 126)}

\* options handed to New
RequestOptions ==
    {[Hostname |-> "", Port |-> 0, HTTPS |-> FALSE, Prefix |-> ""],
     [Hostname |-> "unihtml.example", Port |-> 443, HTTPS |-> TRUE, Prefix |-> "/api"]}

InitRequest ==
    /\ \E c \in RequestContents, d \in RequestDurations, w \in {0, Second},
          m \in RequestLengths, ps \in {Undefined, A4}, o \in {Portrait, Landscape},
          opts \in RequestOptions :
            gen = [NoGen EXCEPT !.pc = "ready", !.o = NewOptions(opts),
                    !.q = WaitTime(TimeoutDuration(Orientation(PageSize(MarginTop(
                            SetContent(BuildHTMLQuery, c), m), ps), o), d), w).query]
    /\ InitIdleBuilder
    /\ InitIdleValidate
    /\ InitIdleClient
    /\ InitIdleSizes
    /\ InitIdleTrim
    /\ InitIdleDocument

\* cli.getGenerateRequest(ctx, q), as ConvertHTML calls it once q.Validate() passed
GetGenerateRequest ==
    /\ gen.pc = "ready"
    /\ QueryValidate(gen.q) = NoErr
    /\ gen' = [gen EXCEPT !.pc = "done", !.body = getGenerateRequest(gen.q),
                           !.req = NewRequest(gen.o)]
    /\ UNCHANGED <<builderVars, validateVars, clientVars, sizesVars, trimVars, documentVars>>

NextRequest == GetGenerateRequest

SpecRequest == InitRequest /\ [][NextRequest]_vars

----------------------------------------------------------------------------
(* The plugin: a Document and its setters *)

NewDocumentFromString(html) == [ZeroDocument EXCEPT !.content = <<StringContent(html)>>]

SetMargins(d, left, right, top, bottom) ==
    [d EXCEPT !.margins = [Left |-> Point(left), Right |-> Point(right),
                           Top |-> Point(top), Bottom |-> Point(bottom)],
              !.position = "absolute"]

SetMarginLeft(d, m) == [d EXCEPT !.margins.Left = m]
SetMarginRight(d, m) == [d EXCEPT !.margins.Right = m]
SetMarginTop(d, m) == [d EXCEPT !.margins.Top = m]
SetMarginBottom(d, m) == [d EXCEPT !.margins.Bottom = m]

\* SetPageSize: the document it leaves; an invalid page size is refused
SetPageSize(d, ps) ==
    IF ~IsAPageSize(ps) THEN d
    ELSE [d EXCEPT !.pageSize = ps, !.position = "absolute"]

SetPageWidth(d, w) == [d EXCEPT !.pageWidth = w, !.position = "absolute"]
SetPageHeight(d, h) == [d EXCEPT !.pageHeight = h, !.position = "absolute"]
SetLandscapeOrientation(d) == [d EXCEPT !.orientation = Landscape]
SetPos(d, x, y) == [d EXCEPT !.position = "absolute", !.posX = x, !.posY = y]
SetTimeoutDuration(d, duration) == [d EXCEPT !.timeout = <<duration>>]
Document_WaitTime(d, duration) == [d EXCEPT !.waitTime = duration]
TrimLastPageContent(d) == [d EXCEPT !.trimLast = TRUE]
Document_WaitReady(d, sel) == [d EXCEPT !.waitReady = Append(@, BySelector(sel, BySearch))]
Document_WaitVisible(d, sel) == [d EXCEPT !.waitVisible = Append(@, BySelector(sel, BySearch))]

getTimeoutDuration(d) == IF d.timeout # <<>> THEN d.timeout[1] ELSE 0

\* getMargins working on d.margins in place (m := &d.margins) and not on a copy of it
getMarginsInPlace(d) ==
    LET m == IF d.position = "relative"
             THEN [Top |-> Millimeter(1), Left |-> Millimeter(1),
                   Bottom |-> Millimeter(1), Right |-> Millimeter(1)]
             ELSE [side \in DOMAIN d.margins |->
                        IF d.margins[side] = Nil THEN Millimeter(10) ELSE d.margins[side]]
    IN  [m |-> m, d |-> [d EXCEPT !.margins = m]]

\* getMargins: the margins it returns and the document it leaves
getMargins(d) ==
    LET m == IF d.position = "relative"
             THEN [Top |-> Millimeter(1), Left |-> Millimeter(1),
                   Bottom |-> Millimeter(1), Right |-> Millimeter(1)]
             ELSE [side \in DOMAIN d.margins |->
                        IF d.margins[side] = Nil THEN Millimeter(10) ELSE d.margins[side]]
    IN  [m |-> m, d |-> d]

----------------------------------------------------------------------------
(* Setter calls on one Document, and the margins resolved for it *)

\* setter calls made on one Document
MaxDocCalls == 3

MarginInputs == {Nil, Millimeter(5), Inch(1)}

InitMargins ==
    /\ doc = NewDocumentFromString("<html>")
    /\ resolved = NoResolved
    /\ unihtmlClient = FALSE
    /\ health = NoHealth
    /\ exp = NoExport
    /\ now = 0
    /\ stat = [setters |-> 0, exports |-> 0, passed |-> 0, calls |-> 0]
    /\ InitIdleBuilder
    /\ InitIdleValidate
    /\ InitIdleClient
    /\ InitIdleRequest
    /\ InitIdleSizes
    /\ InitIdleTrim

\* a setter call leaves the document d
DocSet(d) ==
    /\ exp.pc = "idle"
    /\ stat.setters < MaxDocCalls
    /\ stat' = [stat EXCEPT !.setters = @ + 1]
    /\ doc' = d
    /\ resolved' = NoResolved
    /\ UNCHANGED <<unihtmlClient, health, exp, now>>
    /\ UNCHANGED <<builderVars, validateVars, clientVars, requestVars, sizesVars, trimVars>>

CallSetMargins == \E v \in {<<0, 0, 0, 0>>, <<5, 6, 7, 8>>} : DocSet(SetMargins(doc, v[1], v[2], v[3], v[4]))
CallSetMarginLeft == \E m \in MarginInputs : DocSet(SetMarginLeft(doc, m))
CallSetMarginRight == \E m \in MarginInputs : DocSet(SetMarginRight(doc, m))
CallSetMarginTop == \E m \in MarginInputs : DocSet(SetMarginTop(doc, m))
CallSetMarginBottom == \E m \in MarginInputs : DocSet(SetMarginBottom(doc, m))
CallSetPageSize == \E ps \in {A4, Letter + 1} : DocSet(SetPageSize(doc, ps))
CallSetPageWidth == DocSet(SetPageWidth(doc, Inch(2)))
CallSetPageHeight == DocSet(SetPageHeight(doc, Inch(2)))
CallSetLandscapeOrientation == DocSet(SetLandscapeOrientation(doc))
CallSetPos == DocSet(SetPos(doc, 1, 2))
CallTrimLastPageContent == DocSet(TrimLastPageContent(doc))
CallDocument_WaitReady == doc.waitReady = <<>> /\ DocSet(Document_WaitReady(doc, "#a"))
CallDocument_WaitVisible == doc.waitVisible = <<>> /\ DocSet(Document_WaitVisible(doc, "#a"))

\* d.getMargins(), as every export calls it
GetMargins ==
    /\ exp.pc = "idle"
    /\ ~resolved.called
    /\ resolved' = [called |-> TRUE, stored |-> doc.margins, m |-> getMargins(doc).m]
    /\ doc' = getMargins(doc).d
    /\ UNCHANGED <<unihtmlClient, health, exp, now, stat>>
    /\ UNCHANGED <<builderVars, validateVars, clientVars, requestVars, sizesVars, trimVars>>

NextMargins ==
    \/ CallSetMargins
    \/ CallSetMarginLeft
    \/ CallSetMarginRight
    \/ CallSetMarginTop
    \/ CallSetMarginBottom
    \/ CallSetPageSize
    \/ CallSetPageWidth
    \/ CallSetPageHeight
    \/ CallSetLandscapeOrientation
    \/ CallSetPos
    \/ CallTrimLastPageContent
    \/ CallDocument_WaitReady
    \/ CallDocument_WaitVisible
    \/ GetMargins

SpecMargins == InitMargins /\ [][NextMargins]_vars

----------------------------------------------------------------------------
(* The plugin: connecting, and the exports of a Document *)

ErrNoClient == E("UniHTML client not found", <<>>, "")
ErrContentNotDefined == E("html document content not defined", <<>>, "")

\* the switch on resp.StatusCode of HealthCheck, without the case of 502
HealthStatusErrNoBadGateway(status) ==
    CASE status = 200 -> NoErr
      [] status = 404 -> ErrNotFound
      [] status = 500 -> ErrInternalError
      [] OTHER -> ErrNotImplemented

\* the switch on resp.StatusCode of HealthCheck
HealthStatusErr(status) ==
    CASE status = 200 -> NoErr
      [] status = 404 -> ErrNotFound
      [] status = 500 -> ErrInternalError
      [] status = 502 -> ErrBadGateway
      [] OTHER -> ErrNotImplemented

\* client.ParseOptions: the error it returns.  url.Parse rejects a host with an unclosed
\* bracket or a space, and a port that is no number.
ErrInvalidURL == E("provided invalid unihtml-server url", <<>>, "")

ParseOptions(connectPath) ==
    IF \E i \in 1..Len(connectPath) : connectPath[i] \in {" ", "["} THEN ErrInvalidURL
    ELSE NoErr

\* Document.validate, were the content looked at before the client
validateContentFirst(client, d) ==
    IF d.content = <<>> THEN ErrContentNotDefined
    ELSE IF ~client THEN ErrNoClient
    ELSE NoErr

\* Document.validate, client telling whether unihtmlClient is set
validate(client, d) ==
    IF ~client THEN ErrNoClient
    ELSE IF d.content = <<>> THEN ErrContentNotDefined
    ELSE NoErr

\* the earlier of two deadlines
Earliest(a, b) ==
    IF a = NoDeadline THEN b
    ELSE IF b = NoDeadline THEN a
    ELSE IF a < b THEN a ELSE b

\* a context with a deadline of its own that is no child of the caller's
WithTimeoutDetached(parent, timeout, t) ==
    [root |-> "background", deadline |-> t + timeout, cancelled |-> FALSE]

\* context.WithTimeout(parent, timeout) at time t: the child has the earlier deadline
\* and is done when its parent is
WithTimeout(parent, timeout, t) ==
    [parent EXCEPT !.deadline = Earliest(parent.deadline, t + timeout)]

\* ctx.Done() is closed at time t, caller being the caller's context as it is then
Done(ctx, caller, t) ==
    \/ ctx.root = "caller" /\ caller.cancelled
    \/ ctx.deadline # NoDeadline /\ t >= ctx.deadline

\* ctx.Err() of a context that is done
ContextErr(ctx, caller) ==
    IF ctx.root = "caller" /\ caller.cancelled THEN E("context canceled", <<>>, "")
    ELSE E("context deadline exceeded", <<>>, "")

\* the loops of extract over d.waitReady and d.waitVisible
RECURSIVE AddWaitReady(_, _)
AddWaitReady(b, sels) ==
    IF sels = <<>> THEN b
    ELSE AddWaitReady(WaitReady(b, Head(sels).Selector, Head(sels).By), Tail(sels))

RECURSIVE AddWaitVisible(_, _)
AddWaitVisible(b, sels) ==
    IF sels = <<>> THEN b
    ELSE AddWaitVisible(WaitVisible(b, Head(sels).Selector, Head(sels).By), Tail(sels))

\* the builder extract fills for the document d with paper size w, h and margins m
extractBuilder(d, w, h, m) ==
    AddWaitVisible(
        AddWaitReady(
            WaitTime(TimeoutDuration(MarginBottom(MarginTop(MarginRight(MarginLeft(
                Orientation(PaperHeight(PaperWidth(PageSize(
                    SetContent(BuildHTMLQuery, d.content[1]), d.pageSize), w), h),
                    d.orientation), m.Left), m.Right), m.Top), m.Bottom),
                getTimeoutDuration(d)), d.waitTime),
            d.waitReady),
        d.waitVisible)

\* the timeout of the context extract makes for the conversion call
extractTimeout(d) == IF d.timeout # <<>> THEN d.timeout[1] ELSE 15 * Second

\* model.NewPdfReader on the data of the response
NewPdfReader(data) ==
    IF data # <<>> /\ data[1] = "%PDF" THEN NoErr
    ELSE E("pdf: file header not found", <<>>, "")

\* extract retrying the conversion call when it failed
AfterConvertRetry(e) == IF e # NoErr THEN "call" ELSE "parse"

\* extract after ConvertHTML returned the error e
AfterConvert(e) == IF e # NoErr THEN "done" ELSE "parse"

\* An export from its entry to the conversion call.  outer is the context extract is
\* handed, w and h the paper size; t is the time.
Extract(op, caller, outer, w, h, t) ==
    LET b == extractBuilder(doc, w, h, getMargins(doc).m)
        started == [NoExport EXCEPT !.op = op, !.start = t, !.caller = caller]
    IN  IF validate(unihtmlClient, doc) # NoErr
        THEN [started EXCEPT !.pc = "done", !.checked = validate(unihtmlClient, doc),
                             !.err = validate(unihtmlClient, doc)]
        ELSE IF Query(b).err # NoErr
        THEN [started EXCEPT !.pc = "done", !.m = getMargins(doc).m,
                             !.checked = Query(b).err, !.err = Query(b).err]
        ELSE [started EXCEPT !.pc = "call", !.m = getMargins(doc).m, !.q = b.query,
                             !.own = extractTimeout(doc),
                             !.ctx = WithTimeout(outer, extractTimeout(doc), t)]

----------------------------------------------------------------------------
(* Exports of one Document *)

\* exports made of one Document
MaxExports == 2
\* steps of time that pass
MaxTicks == 4

TickLength == 5 * Second

HealthStatusInputs == {200, 201, 404, 500, 502, 503}

\* connect calls made
MaxConnects == 1

\* targets handed to Connect, as their characters: "h:80", then "[::1" and "a b",
\* which are no URL
ConnectPaths ==
    {<<"h", ":", "8", "0">>, <<"[", ":", ":", "1">>, <<"a", " ", "b">>}

\* the context a caller hands to GetPdfPages at time t
CallerContexts(t) ==
    {[root |-> "caller", deadline |-> dl, cancelled |-> FALSE] :
        dl \in {NoDeadline, t + 2 * TickLength, t + 8 * TickLength}}

\* what the server answers a conversion call of an export
ExportResponses ==
    {Response(201, "", "job-1", Body("raw", <<"%PDF", "%%EOF">>, TRUE)),
     Response(201, "", "job-1", Body("raw", <<"diagnostic">>, TRUE)),
     Response(400, "", "", Body("raw", <<"diagnostic">>, TRUE)),
     Response(201, "gzip", "job-1", Body("raw", <<"%PDF", "%%EOF">>, TRUE))}

\* the DrawContext of the creator
DrawContext == [Width |-> 612, Height |-> 792]

ErrWrite == E("open out.pdf: permission denied", <<>>, "")

InitExport ==
    /\ doc \in {NewDocumentFromString("<html>"), NewDocumentFromString(""), ZeroDocument}
    /\ resolved = NoResolved
    /\ unihtmlClient = FALSE
    /\ health = NoHealth
    /\ exp = NoExport
    /\ now = 0
    /\ stat = [setters |-> 0, exports |-> 0, passed |-> 0, calls |-> 0]
    /\ InitIdleBuilder
    /\ InitIdleValidate
    /\ InitIdleClient
    /\ InitIdleRequest
    /\ InitIdleSizes
    /\ InitIdleTrim

NotDocument == <<builderVars, validateVars, clientVars, requestVars, sizesVars, trimVars>>

\* unihtmlClient = client.New(opts), then the health check, of Connect and ConnectOptions
HealthChecked ==
    /\ unihtmlClient' = TRUE
    /\ \E o \in {[status |-> st, err |-> HealthStatusErr(st)] : st \in HealthStatusInputs}
               \cup {[status |-> 0, err |-> e] : e \in TransportErrors} :
            health' = [called |-> TRUE, status |-> o.status, err |-> o.err,
                       connects |-> health.connects + 1, ret |-> o.err,
                       succeeded |-> health.succeeded \/ o.err = NoErr]

\* Connect(path)
Connect ==
    /\ exp.pc = "idle"
    /\ health.connects < MaxConnects
    /\ \E path \in ConnectPaths :
            IF ParseOptions(path) # NoErr
            THEN /\ unihtmlClient' = unihtmlClient
                 /\ health' = [health EXCEPT !.connects = @ + 1, !.ret = ParseOptions(path)]
            ELSE HealthChecked
    /\ UNCHANGED <<doc, resolved, exp, now, stat, NotDocument>>

\* ConnectOptions(o)
ConnectOptions ==
    /\ exp.pc = "idle"
    /\ health.connects < MaxConnects
    /\ HealthChecked
    /\ UNCHANGED <<doc, resolved, exp, now, stat, NotDocument>>

CallSetTimeoutDuration ==
    \E d \in {0, 2 * TickLength, 6 * TickLength} : DocSet(SetTimeoutDuration(doc, d))

CallDocument_WaitTime ==
    \E d \in {2 * TickLength, 4 * Minute} : DocSet(Document_WaitTime(doc, d))

\* an export is entered and runs to its conversion call, or fails before it
BeginExport(e) ==
    /\ exp.pc = "idle"
    /\ stat.exports < MaxExports
    /\ exp' = e
    /\ stat' = [stat EXCEPT !.exports = @ + 1,
                            !.passed = IF e.pc = "call" THEN @ + 1 ELSE @]
    /\ UNCHANGED <<doc, resolved, unihtmlClient, health, now, NotDocument>>

WriteToFile ==
    BeginExport(Extract("WriteToFile", Background,
                        WithTimeout(Background, 20 * Second + doc.waitTime, now),
                        doc.pageWidth, doc.pageHeight, now))

GetPdfPages ==
    \E ctx \in CallerContexts(now) :
        BeginExport(Extract("GetPdfPages", ctx, ctx, doc.pageWidth, doc.pageHeight, now))

GeneratePageBlocks ==
    BeginExport(Extract("GeneratePageBlocks", Background, Background,
                        IF doc.position = "relative" THEN Point(DrawContext.Width)
                        ELSE doc.pageWidth,
                        IF doc.position = "relative" THEN Point(DrawContext.Height)
                        ELSE doc.pageHeight,
                        now))

ExportStep(e) ==
    /\ exp' = e
    /\ UNCHANGED <<doc, resolved, unihtmlClient, health, now, stat, NotDocument>>

\* unihtmlClient.ConvertHTML(ctx, req) is entered and sends its request
IssueCall ==
    /\ exp.pc = "call"
    /\ exp' = [exp EXCEPT !.pc = "converting", !.issued = @ + 1]
    /\ stat' = [stat EXCEPT !.calls = @ + 1]
    /\ UNCHANGED <<doc, resolved, unihtmlClient, health, now, NotDocument>>

\* time passes while the call waits for the server
Tick ==
    /\ exp.pc = "converting"
    /\ now < MaxTicks * TickLength
    /\ now' = now + TickLength
    /\ UNCHANGED <<doc, resolved, unihtmlClient, health, exp, stat, NotDocument>>

\* the caller of GetPdfPages cancels its context
CancelCaller ==
    /\ exp.pc = "converting"
    /\ exp.caller.root = "caller"
    /\ ~exp.caller.cancelled
    /\ ExportStep([exp EXCEPT !.caller.cancelled = TRUE])

\* the server answers while the context of the call is not done
ConvertResponds ==
    /\ exp.pc = "converting"
    /\ ~Done(exp.ctx, exp.caller, now)
    /\ \E r \in ExportResponses :
            ExportStep([exp EXCEPT !.pc = AfterConvert(HandleResponse(r).err),
                                   !.answered = now,
                                   !.outcome = HandleResponse(r).err,
                                   !.err = HandleResponse(r).err,
                                   !.data = IF HandleResponse(r).resp = <<>> THEN <<>>
                                            ELSE HandleResponse(r).resp[1].Data])

\* httpClient.Do fails: the transport fails, or the context of the call is done
ConvertFails ==
    /\ exp.pc = "converting"
    /\ \E e \in TransportErrors \cup
                (IF Done(exp.ctx, exp.caller, now) THEN {ContextErr(exp.ctx, exp.caller)}
                 ELSE {}) :
            ExportStep([exp EXCEPT !.pc = AfterConvert(e), !.outcome = e, !.err = e])

\* the data is read as a PDF; WriteToFile and GeneratePageBlocks then work on the pages,
\* which may fail
Parse ==
    /\ exp.pc = "parse"
    /\ \E e \in (IF NewPdfReader(exp.data) # NoErr THEN {NewPdfReader(exp.data)}
                 ELSE IF exp.op = "GetPdfPages" THEN {NoErr}
                 ELSE {NoErr, ErrWrite}) :
            ExportStep([exp EXCEPT !.pc = "done", !.err = e])

\* the export returns; the document can be exported again
ReturnExport ==
    /\ exp.pc = "done"
    /\ ExportStep(NoExport)

NextExport ==
    \/ Connect
    \/ ConnectOptions
    \/ CallSetTimeoutDuration
    \/ CallDocument_WaitTime
    \/ WriteToFile
    \/ GetPdfPages
    \/ GeneratePageBlocks
    \/ IssueCall
    \/ Tick
    \/ CancelCaller
    \/ ConvertResponds
    \/ ConvertFails
    \/ Parse
    \/ ReturnExport

SpecExport == InitExport /\ [][NextExport]_vars

----------------------------------------------------------------------------
(* GeneratePageBlocks: the pages extract returned are placed one after the other.  A    *)
(* page is [mbox, img]: the height of its media box in points and the image it renders  *)
(* to.  A DrawContext holds X and Y as quotients, the rest in whole points.             *)

Whole(n) == [num |-> n, den |-> 1]

Sub(a, b) == Rat(a.num * b.den - b.num * a.den, a.den * b.den)

\* float64(l.Points()) of a length the Document stores
PointsOf(l) == Length_Points([unit |-> l.unit, val |-> Whole(l.val)]).val

\* ctx as the loop finds it: GeneratePageBlocks moves X left by the left margin of a
\* Document positioned relatively and puts any other at its position
EntryContext(d, ctx) ==
    IF d.position = "relative"
    THEN [ctx EXCEPT !.X = Sub(@, PointsOf(getMargins(d).m.Left))]
    ELSE [ctx EXCEPT !.X = Whole(d.posX), !.Y = Whole(d.posY)]

\* trimHeight, were every page trimmed and not the last alone
trimHeightOfEveryPage(d, i, n, page) ==
    IF d.trimLast
    THEN LET trimRatio == detectTrimHeight(page.img)
             whole == Mul(Whole(page.mbox), Rat(trimRatio.num, trimRatio.den))
             less == IF d.margins.Bottom # Nil THEN Sub(whole, PointsOf(d.margins.Bottom))
                     ELSE whole
         IN  IF less.num < 0 THEN Whole(0) ELSE less
    ELSE Whole(0)

\* trimHeight of page i of n
trimHeight(d, i, n, page) ==
    IF d.trimLast /\ i = n
    THEN LET trimRatio == detectTrimHeight(page.img)
             whole == Mul(Whole(page.mbox), Rat(trimRatio.num, trimRatio.den))
             less == IF d.margins.Bottom # Nil THEN Sub(whole, PointsOf(d.margins.Bottom))
                     ELSE whole
         IN  IF less.num < 0 THEN Whole(0) ELSE less
    ELSE Whole(0)

\* the test for a new page, were a cursor at 95% exactly moved on too
NewPageFromThreshold(ctx, i, n) ==
    i # n /\ 100 * ctx.Y.num >= 95 * (ctx.PageHeight - ctx.Margins.Bottom) * ctx.Y.den

\* i != len(pages)-1 && ctx.Y > (ctx.PageHeight-ctx.Margins.Bottom)*.95
NewPage(ctx, i, n) ==
    i # n /\ 100 * ctx.Y.num > 95 * (ctx.PageHeight - ctx.Margins.Bottom) * ctx.Y.den

\* one round of the loop for page i of n, newCtx being what the block's own
\* GeneratePageBlocks returned: the context the round leaves
Placed(d, i, n, page, newCtx) ==
    LET trimmed == [newCtx EXCEPT !.Y = Sub(@, trimHeight(d, i, n, page))]
    IN  IF NewPage(trimmed, i, n)
        THEN [trimmed EXCEPT !.X = Whole(trimmed.Margins.Left),
                             !.Y = Whole(trimmed.Margins.Top),
                             !.Page = @ + 1]
        ELSE trimmed

----------------------------------------------------------------------------
(* Layouts of one Document *)

\* pages extract returns at most
MaxPages == 2

\* the images pages render to: blank, content in the top row of two, content in the
\* middle row of three
PageImages ==
    {Uniform(ImgWidth, 2, White), OnePixel(ImgWidth, 2, White, <<0, 0>>, Grey),
     OnePixel(ImgWidth, 3, White, <<1, 1>>, Grey)}

PageInputs == {[mbox |-> 792, img |-> img] : img \in PageImages}

\* the context the creator hands in: a page of 850 points with a bottom margin of 50,
\* so that 95% of the available height is 760 (in float64 too: 800 * .95 is 760)
CreatorContext ==
    [Page |-> 1, X |-> Whole(40), Y |-> Whole(30), PageHeight |-> 850,
     Margins |-> [Left |-> 40, Top |-> 30, Bottom |-> 50]]

\* where a block leaves the cursor: on the page or on a next one, above, at and beyond
\* 95% of the available height
BlockContexts(ctx) ==
    {[ctx EXCEPT !.Page = pg, !.Y = Whole(y)] :
        pg \in {ctx.Page, ctx.Page + 1}, y \in {300, 760, 761}}

BottomInputs == {Nil, Millimeter(10), Point(300), Inch(2)}

ErrBlock == E("invalid page", <<>>, "")

InitLayout ==
    /\ \E trimLast \in BOOLEAN, bottom \in BottomInputs, absolute \in BOOLEAN :
            doc = [NewDocumentFromString("<html>") EXCEPT
                        !.trimLast = trimLast, !.margins.Bottom = bottom,
                        !.position = IF absolute THEN "absolute" ELSE "relative",
                        !.posX = IF absolute THEN 100 ELSE 0,
                        !.posY = IF absolute THEN 200 ELSE 0]
    /\ \E n \in 0..MaxPages : \E pages \in [1..n -> PageInputs] :
            lay = [NoLay EXCEPT !.pc = "loop", !.pages = pages,
                                !.ctx = EntryContext(doc, CreatorContext)]
    /\ trim = NoTrim
    /\ resolved = NoResolved
    /\ unihtmlClient = TRUE
    /\ health = NoHealth
    /\ exp = NoExport
    /\ now = 0
    /\ stat = [setters |-> 0, exports |-> 0, passed |-> 0, calls |-> 0]
    /\ InitIdleBuilder
    /\ InitIdleValidate
    /\ InitIdleClient
    /\ InitIdleRequest
    /\ InitIdleSizes

LayoutStep(l) ==
    /\ lay' = l
    /\ UNCHANGED <<trim, builderVars, validateVars, clientVars, requestVars, sizesVars,
                   documentVars>>

\* a round of the loop: the page is made a block, trimmed if it is the last, and placed
PlacePage ==
    /\ lay.pc = "loop"
    /\ lay.i < Len(lay.pages)
    /\ \E newCtx \in BlockContexts(lay.ctx) :
            LET i == lay.i + 1
                n == Len(lay.pages)
                after == Placed(doc, i, n, lay.pages[i], newCtx)
            IN  LayoutStep([lay EXCEPT
                    !.i = i,
                    !.ctx = after,
                    !.order = Append(@, i),
                    !.blocks = @ + 1,
                    !.round = [i |-> i, newCtx |-> newCtx,
                               trimHeight |-> trimHeight(doc, i, n, lay.pages[i]),
                               advanced |-> NewPage([newCtx EXCEPT !.Y =
                                    Sub(@, trimHeight(doc, i, n, lay.pages[i]))], i, n)]])

\* NewBlockFromPage, Render, GetMediaBox or the block's GeneratePageBlocks fails: nil,
\* an empty DrawContext and the error are returned
PageFails ==
    /\ lay.pc = "loop"
    /\ lay.i < Len(lay.pages)
    /\ LayoutStep([lay EXCEPT !.pc = "done", !.ctx = NoContext, !.blocks = 0,
                              !.err = ErrBlock])

\* return blocks, ctx, nil
ReturnBlocks ==
    /\ lay.pc = "loop"
    /\ lay.i = Len(lay.pages)
    /\ LayoutStep([lay EXCEPT !.pc = "done"])

NextLayout ==
    \/ PlacePage
    \/ PageFails
    \/ ReturnBlocks

SpecLayout == InitLayout /\ [][NextLayout]_vars

----------------------------------------------------------------------------
(* Claims about the builder, under SpecBuilder *)

Setters ==
    {"SetContent", "PageSize", "PaperWidth", "PaperHeight", "Orientation", "Portrait",
     "Landscape", "MarginTop", "MarginBottom", "MarginLeft", "MarginRight",
     "TimeoutDuration", "WaitTime", "WaitReady", "WaitVisible"}

\* C1: once the builder holds a sticky error, every later setter call is a no-op:
\* the draft query and the stored error are left exactly as they were.
C1_SettersAreNoOpsAfterError ==
    (last.op \in Setters /\ last.before.err # NoErr) =>
        (query = last.before.query /\ err = last.before.err)

\* C2: the Query returned by a successful Query() call is immutable: no later call on
\* the builder changes a field of the value that was returned.
C2_ReturnedQueryImmutable == returned => query = snapshot

ContentFields(q) == <<q.Content, q.URL, q.ContentType, q.Method>>

IsEmptyContentTypeErr(e) == e.text = "empty custom content type" /\ Is(e, ErrContentType)

\* C6 as stated: SetContent on a builder whose content type is already set records
\* ContentTypeAlreadyDeclared and leaves content, URL, content type and method
\* unchanged; SetContent with html/dir content of empty content type (on a builder
\* with no content type yet) records an empty-content-type error and sets no content.
C6_SetContentAsStated ==
    last.op = "SetContent" =>
        /\ last.before.query.ContentType # "" =>
                /\ err = ErrContentTypeDeclared
                /\ ContentFields(query) = ContentFields(last.before.query)
        /\ (/\ last.before.query.ContentType = ""
            /\ last.content.method \in {"html", "dir"}
            /\ last.content.contentType = "") =>
                /\ IsEmptyContentTypeErr(err)
                /\ ContentFields(query) = ContentFields(last.before.query)

\* C6 amended: on a builder that holds no error, SetContent with html, dir or web
\* content records ContentTypeAlreadyDeclared when the content type is already set,
\* leaving content, URL, content type and method unchanged, and SetContent with
\* html/dir content of empty content type records an empty-content-type error and sets
\* no content when no content type is set; content of any other method records an
\* invalid-method error, and a builder that already holds an error keeps it.
C6_SetContentErrors ==
    last.op = "SetContent" =>
        /\ ContentFields(query) # ContentFields(last.before.query) =>
                (last.before.err = NoErr /\ last.before.query.ContentType = "" /\ err = NoErr)
        /\ last.before.err # NoErr => err = last.before.err
        /\ (/\ last.before.err = NoErr
            /\ last.before.query.ContentType # ""
            /\ last.content.method \in {"html", "dir", "web"}) =>
                err = ErrContentTypeDeclared
        /\ (/\ last.before.err = NoErr
            /\ last.before.query.ContentType = ""
            /\ last.content.method \in {"html", "dir"}
            /\ last.content.contentType = "") =>
                IsEmptyContentTypeErr(err)
        /\ (last.before.err = NoErr /\ last.content.method \notin {"html", "dir", "web"}) =>
                (err.text = "invalid content method: %s" /\ err.arg = <<last.content.method>>)

C6_Witness ==
    /\ last.op = "SetContent"
    /\ last.before.err = NoErr
    /\ last.before.query.ContentType = "text/html"
    /\ last.content = webURL("http://a")
    /\ err = ErrContentTypeDeclared
    /\ query.Method = "html" /\ query.URL = ""

----------------------------------------------------------------------------
(* Claims about the conversion call, under SpecConvert and SpecConcurrent *)

\* the calls that received a response and returned
Answered == {c \in Callers : conv[c].pc = "done" /\ conv[c].resp # NoResponse}

SupportedEncodings == {"gzip", "deflate", ""}

\* the body can be opened under the response's Content-Encoding
Opens(r) == r.encoding \in SupportedEncodings /\ (r.encoding = "gzip" => r.body.format = "gzip")

\* the body is what the Content-Encoding says and arrives whole
WellFormed(r) ==
    /\ r.body.intact
    /\ r.body.format = (IF r.encoding = "" THEN "raw" ELSE r.encoding)

\* the status mapping of the conversion call, as the specification tabulates it
MappedKind(status) ==
    CASE status = 201 -> NoErr
      [] status = 400 -> ErrBadRequest
      [] status = 401 -> ErrUnauthorized
      [] status = 404 -> ErrNotFound
      [] status = 408 -> ErrTimedOut
      [] status = 501 -> ErrNotImplemented
      [] OTHER -> ErrInternalError

RemoteKinds ==
    {ErrNotFound, ErrBadRequest, ErrNotImplemented, ErrInternalError, ErrBadGateway,
     ErrUnauthorized, ErrTimedOut}

\* C7: the conversion call maps the response status exactly as 201 success, 400
\* BadRequest, 401 Unauthorized, 404 NotFound, 408 TimedOut, 501 NotImplemented and
\* every other status (200 and 500 included) InternalError: that is the status error of
\* every answered call, the call succeeds only on 201, and whenever the body opens
\* under its Content-Encoding an error status is returned as its mapped kind and a 201
\* whose body is read to the end is returned as success.
C7_ConvertStatusMapping ==
    \A c \in Answered :
        LET r == conv[c].resp
            ret == conv[c].ret
        IN  /\ conv[c].httpErr = MappedKind(r.status)
            /\ ret.err = NoErr => (r.status = 201 /\ ret.resp # <<>>)
            /\ (r.status # 201 /\ Opens(r)) => Is(ret.err, MappedKind(r.status))
            /\ (r.status = 201 /\ WellFormed(r)) => (ret.err = NoErr /\ ret.resp # <<>>)

C7_Witness ==
    \E c \in Answered :
        /\ conv[c].resp.status = 200
        /\ conv[c].resp.encoding = "deflate"
        /\ Is(conv[c].ret.err, ErrInternalError)

\* C8: a response whose Content-Encoding is not gzip, deflate or absent makes
\* ConvertHTML fail with the unsupported-encoding error for every status, 201 and the
\* error statuses included; the error is none of the status-mapped kinds and no
\* response envelope is returned.
C8_UnsupportedEncodingFails ==
    \A c \in Answered :
        conv[c].resp.encoding \notin SupportedEncodings =>
            /\ conv[c].ret.err.text = "unsupported Content-Encoding: %s header"
            /\ conv[c].ret.err.arg = <<conv[c].resp.encoding>>
            /\ \A k \in RemoteKinds : ~Is(conv[c].ret.err, k)
            /\ conv[c].ret.resp = <<>>

C8_Witness ==
    \E c \in Answered :
        /\ conv[c].resp.status = 400
        /\ conv[c].resp.encoding = "br"
        /\ conv[c].ret.err.arg = <<"br">>

\* C9: whenever the status maps to an error kind and the Content-Encoding is gzip,
\* deflate or absent, ConvertHTML returns an error that wraps the mapped kind and
\* whose message contains the decompressed response body.
C9_ErrorStatusWrapsKindAndBody ==
    \A c \in Answered :
        LET r == conv[c].resp
        IN  (MappedKind(r.status) # NoErr /\ r.encoding \in SupportedEncodings) =>
                /\ Is(conv[c].ret.err, MappedKind(r.status))
                /\ WellFormed(r) => conv[c].ret.err.arg = r.body.payload

\* C10: a non-zero timeout override is the timeout of that call only: the Client's
\* stored default stays 30 seconds, so every call, later or concurrent, whose query
\* has no override runs with the 30-second default.
C10_TimeoutOverrideIsPerCall ==
    /\ cliTimeout = 30 * Second
    /\ \A c \in Callers :
            (conv[c].pc = "do" \/ (conv[c].pc = "done" /\ conv[c].timeout # 0)) =>
                conv[c].timeout =
                    IF conv[c].q.TimeoutDuration # 0 THEN conv[c].q.TimeoutDuration
                    ELSE 30 * Second

\* a call without override running after one with an override (caller 1) and beside
\* one with an override (caller 2)
C10_Witness ==
    /\ conv[1].prev = 5 * Second
    /\ conv[1].pc = "do"
    /\ conv[1].q.TimeoutDuration = 0
    /\ conv[1].timeout = 30 * Second
    /\ conv[2].pc = "do"
    /\ conv[2].timeout = 5 * Second

----------------------------------------------------------------------------
(* Claims about the validation pass, under SpecValidate *)

\* the error the last validation of vq returned
LastErr == verr[Len(verr)]

ContentPresent(q) ==
    \/ q.Method = "web" /\ q.URL # ""
    \/ q.Method \in {"html", "dir"} /\ q.Content # <<>> /\ q.ContentType # ""

WaitConditionValid(c) == c.Selector # "" /\ c.By \in ByID..BySearch

AllValid(list) == \A i \in 1..Len(list) : WaitConditionValid(list[i])

RenderParametersValid(rp) ==
    /\ rp.WaitTime <= 3 * Minute
    /\ AllValid(rp.WaitReady)
    /\ AllValid(rp.WaitVisible)

\* C3: render-parameter validation at finalize rejects a query when the wait time
\* exceeds 3 minutes or a wait-condition of either list (WaitReady, WaitVisible) has
\* an empty selector or a lookup strategy outside ByID..BySearch, and accepts it only
\* when the wait time is at most 3 minutes and every condition of both lists is valid.
C3_RenderValidationRejectsEitherList ==
    (verr # <<>> /\ ContentPresent(vq) /\ vq.PageParameters = ZeroPageParameters) =>
        (LastErr = NoErr <=> RenderParametersValid(vq.RenderParameters))

IsUndefinedMethodErr(e) == e.text = "undefined content query method: %s"

\* C4: Query.Validate cross-checks method and content: "web" with an empty URL fails
\* with MissingData; "html" or "dir" with empty content fails with MissingData, and
\* with content but an empty content type fails with ContentType; any other method
\* fails with the undefined-method error naming the value; a valid method with its
\* content present fails on none of these checks.
C4_MethodContentCrossValidation ==
    verr # <<>> =>
        /\ (vq.Method = "web" /\ vq.URL = "") => LastErr = ErrMissingData
        /\ (vq.Method \in {"html", "dir"} /\ vq.Content = <<>>) => LastErr = ErrMissingData
        /\ (vq.Method \in {"html", "dir"} /\ vq.Content # <<>> /\ vq.ContentType = "")
                => LastErr = ErrContentType
        /\ vq.Method \notin {"web", "html", "dir"}
                => (IsUndefinedMethodErr(LastErr) /\ LastErr.arg = <<vq.Method>>)
        /\ ContentPresent(vq)
                => (LastErr \notin {ErrMissingData, ErrContentType} /\ ~IsUndefinedMethodErr(LastErr))

C4_Witness ==
    /\ verr # <<>>
    /\ vq.Method = "html" /\ vq.Content # <<>> /\ vq.ContentType = ""
    /\ LastErr = ErrContentType

NegativeDimensions(q) ==
    {d \in Dimensions : q.PageParameters[d] # Nil /\ q.PageParameters[d].val < 0}

PageSizeEnumerated(q) ==
    q.PageParameters.PageSize = <<>> \/ q.PageParameters.PageSize[1] \in Undefined..Letter

\* C5: with every dimension absent or non-negative and the page size absent or
\* enumerated, page-parameter validation succeeds; with exactly one negative
\* dimension it fails with the error naming that dimension, and once that value alone
\* is replaced by a non-negative one validation succeeds.
C5_PageParameterValidation ==
    (verr # <<>> /\ ContentPresent(vq) /\ vq.RenderParameters = ZeroRenderParameters) =>
        /\ (NegativeDimensions(vq) = {} /\ PageSizeEnumerated(vq)) => LastErr = NoErr
        /\ \A d \in Dimensions :
                NegativeDimensions(vq) = {d} => LastErr.text = "negative value for " \o d
        /\ \A d \in Dimensions :
                (Len(verr) = 2 /\ verr[1].text = "negative value for " \o d /\ PageSizeEnumerated(vq))
                    => (LastErr = NoErr <=> NegativeDimensions(vq) = {})

C5_Witness ==
    /\ Len(verr) = 2
    /\ verr[1].text = "negative value for MarginLeft"
    /\ verr[2] = NoErr
    /\ vq.PageParameters.MarginLeft \in NonNegativeInputs
    /\ vq.PageParameters.PaperWidth = Inch(2)
    /\ vq.PageParameters.PageSize = <<Letter>>

----------------------------------------------------------------------------
(* Claims about package sizes, under SpecSizes *)

EnumeratedNames == {PageSize_String(p) : p \in Undefined..Letter}

\* C18: PageSize names round-trip: for every enumerated page size p (Undefined,
\* A0..A10, B0..B10, Letter) PageSizeString(p.String()) returns p without error, the
\* name mapping being a bijection between the 24 values and their names; a name that
\* is none of these makes the lookup fail with an error, and UnmarshalText then leaves
\* the PageSize it was called on as it was.
C18_PageSizeNamesRoundTrip ==
    /\ (sz.op = "PageSizeString" /\ sz.chained /\ sz.p \in Undefined..Letter) =>
            (sz.val = sz.p /\ sz.err = NoErr)
    /\ (sz.op \in {"PageSizeString", "UnmarshalText"} /\ sz.text \notin EnumeratedNames) =>
            sz.err # NoErr
    /\ (sz.op = "UnmarshalText" /\ sz.text \notin EnumeratedNames) => sz.val = sz.p
    /\ (sz.op \in {"PageSizeString", "UnmarshalText"} /\ sz.text \in EnumeratedNames) =>
            (sz.err = NoErr /\ PageSize_String(sz.val) = sz.text)
    /\ Cardinality(EnumeratedNames) = 24
    /\ DOMAIN pageSizeMap = EnumeratedNames

C18_Witness ==
    /\ sz.op = "PageSizeString"
    /\ sz.chained
    /\ sz.p = Letter
    /\ sz.text = <<"L", "e", "t", "t", "e", "r">>
    /\ sz.val = Letter
    /\ sz.err = NoErr

Suffixes == {<<"m", "m">>, <<"i", "n">>, <<"p", "t">>}

\* the literal ends in a unit and what stands before the unit, spaces aside, is a number
WellFormedLiteral(s) ==
    \E u \in Suffixes :
        /\ HasSuffix(s, u)
        /\ ParseFloat(TrimSpace(SubSeq(s, 1, Len(s) - Len(u)))).err = NoErr

\* C19: Length round-trips through its textual form: for every millimeter, inch or
\* point value x of one decimal digit UnmarshalLength(x.String()) returns a length of
\* the same unit and value; a literal whose suffix is not mm, in or pt, or whose
\* numeric part does not parse, fails with an error.
C19_LengthTextRoundTrip ==
    sz.op = "UnmarshalLength" =>
        /\ sz.chained => (sz.err = NoErr /\ sz.len = sz.x)
        /\ ~WellFormedLiteral(sz.text) => sz.err # NoErr

----------------------------------------------------------------------------
(* Claims about trim detection, under SpecTrim *)

NonWhite(img) == {xy \in Pixels(img.W, img.H) : img.px[xy] # White}

\* C16: for an all-white page image of height H with a single non-white pixel at row R
\* counted from the top, the trim fraction is (H - R) / H, the top row being counted
\* as row 0 or as row 1; for an all-white image it is 1.
C16_TrimFractionOfSinglePixel ==
    trim.pc = "done" =>
        /\ NonWhite(trim.img) = {} => trim.num = trim.den
        /\ \A xy \in Pixels(trim.img.W, trim.img.H) :
                NonWhite(trim.img) = {xy} =>
                    /\ trim.den = trim.img.H
                    /\ trim.num \in {trim.img.H - xy[2], trim.img.H - (xy[2] + 1)}

\* the test the specification words: against a pure white reference any difference, else
\* a difference of more than 3% of 65535 on a channel
CountsAsContent(ref, c) ==
    IF ref = White THEN c # ref
    ELSE \E ch \in {"r", "g", "b"} : 100 * (IF c[ch] > ref[ch] THEN c[ch] - ref[ch] ELSE ref[ch] - c[ch]) > 3 * 65535

ContentRows(img) ==
    {xy[2] : xy \in {p \in Pixels(img.W, img.H) : CountsAsContent(Reference(img), img.px[p])}}

\* C17: a pixel counts as content iff, the bottom-left reference pixel being pure white,
\* any of its channels differs from the reference, and otherwise iff a channel differs
\* from the reference by strictly more than 3% of 65535: the scan ends at the lowest row
\* holding such a pixel, and runs through when no pixel is one (a shift of 3% or less on
\* every channel is not detected).
C17_ContentThreshold ==
    trim.pc = "done" =>
        /\ ContentRows(trim.img) = {} <=> trim.row = -1
        /\ trim.row # -1 =>
                (trim.row \in ContentRows(trim.img) /\ \A y \in ContentRows(trim.img) : y <= trim.row)

\* a grey image whose one shifted pixel, 1967 off on one channel, is found in its row
C17_Witness ==
    /\ trim.pc = "done"
    /\ Reference(trim.img) = Grey
    /\ trim.row = 0
    /\ trim.img.H > 1
    /\ trim.img.px[<<1, 0>>] = Shifted(Grey, "g", 1967)

\* k: the rows, counted upward from the bottom row, before the first one holding content
EmptyRunFromBottom(img) ==
    IF ContentRows(img) = {} THEN img.H
    ELSE img.H - 1 - (CHOOSE y \in ContentRows(img) : \A z \in ContentRows(img) : z <= y)

\* C25: for an image of height H, detectTrimHeight returns k / H where k is the number of
\* consecutive rows, counted upward from the bottom row, in which no pixel counts as
\* content against the bottom-left reference pixel; it returns 0 when the bottom row
\* itself holds a content pixel.
C25_TrimFractionIsEmptyRun ==
    trim.pc = "done" =>
        /\ trim.den = trim.img.H
        /\ trim.num = EmptyRunFromBottom(trim.img)

----------------------------------------------------------------------------
(* Claims about the conversion request, under SpecRequest *)

\* C11: the serialized conversion request carries the query's timeout override in its
\* timeoutDuration field in milliseconds: an override of d milliseconds is serialized
\* as the integer d, and a zero override is omitted.  (Durations are counted in
\* milliseconds here, so the override of the query is d itself.)
C11_TimeoutSerializedInMilliseconds ==
    gen.pc = "done" =>
        IF gen.q.TimeoutDuration = 0 THEN "timeoutDuration" \notin DOMAIN gen.body
        ELSE /\ "timeoutDuration" \in DOMAIN gen.body
             /\ gen.body["timeoutDuration"] = gen.q.TimeoutDuration

\* the JSON key of each Length of the page parameters
LengthKeys ==
    [PaperWidth |-> "paperWidth", PaperHeight |-> "paperHeight", MarginTop |-> "marginTop",
     MarginBottom |-> "marginBottom", MarginLeft |-> "marginLeft",
     MarginRight |-> "marginRight"]

\* the text of a body field denotes the length l: it is null for no length, and else
\* reads, by UnmarshalLength, as l's unit and value
Denotes(text, l) ==
    IF l = Nil THEN text = JSONNull
    ELSE /\ text # JSONNull
         /\ UnmarshalLength(text).err = NoErr
         /\ UnmarshalLength(text).len =
                [unit |-> l.unit,
                 val |-> Dec(l.val * 10 + (IF "tenth" \in DOMAIN l THEN l.tenth ELSE 0), 1)]

\* C28: the body of the conversion request depends on the method: for "web" it carries
\* the URL in contentURL with content and contentType empty, for "html" and "dir" the
\* content and its type with contentURL empty; method, page parameters and render
\* parameters are the query's, a set page size is written by its name (A4 as "A4"); the
\* request is a POST to <base>/v1/pdf with the headers Content-Type: application/json
\* and Accept-Encoding: deflate, gzip;q=1.0, *;q=0.5.
C28_RequestBodyFollowsQuery ==
    gen.pc = "done" =>
        LET q == gen.q
            body == gen.body
        IN  /\ q.Method = "web" =>
                    (body.contentURL = q.URL /\ body.content = <<>> /\ body.contentType = "")
            /\ q.Method \in {"html", "dir"} =>
                    (body.content = q.Content /\ body.contentType = q.ContentType
                        /\ body.contentURL = "")
            /\ body.method = q.Method
            /\ \A d \in DOMAIN LengthKeys : Denotes(body[LengthKeys[d]], q.PageParameters[d])
            /\ body.orientation = q.PageParameters.Orientation
            /\ q.PageParameters.PageSize = <<>> => body.pageSize = JSONNull
            /\ q.PageParameters.PageSize = <<A4>> => body.pageSize = <<"A", "4">>
            /\ body.waitTime = Int64(q.RenderParameters.WaitTime)
            /\ body.waitReady = q.RenderParameters.WaitReady
            /\ body.waitVisible = q.RenderParameters.WaitVisible
            /\ gen.req.Method = "POST"
            /\ gen.req.URL = Addr(gen.o) \o "/v1/pdf"
            /\ DOMAIN gen.req.Header = {"Content-Type", "Accept-Encoding"}
            /\ gen.req.Header["Content-Type"] = "application/json"
            /\ gen.req.Header["Accept-Encoding"] = "deflate, gzip;q=1.0, *;q=0.5"

----------------------------------------------------------------------------
(* Claims about the Document's margins, under SpecMargins *)

Sides == {"Left", "Right", "Top", "Bottom"}

\* C15: after any sequence of document setters the effective margins are: all four
\* 1 mm when the document is in relative positioning mode, whatever margin was set; in
\* absolute mode each margin that was set keeps its value and each unset margin is
\* 10 mm.  Resolving the margins does not modify the margins the document stores.
C15_EffectiveMargins ==
    resolved.called =>
        /\ doc.position = "relative" => \A side \in Sides : resolved.m[side] = Millimeter(1)
        /\ doc.position = "absolute" =>
                \A side \in Sides :
                    resolved.m[side] =
                        IF resolved.stored[side] # Nil THEN resolved.stored[side]
                        ELSE Millimeter(10)
        /\ doc.margins = resolved.stored

C15_Witness ==
    /\ resolved.called
    /\ doc.position = "absolute"
    /\ doc.margins.Left = Millimeter(5)
    /\ doc.margins.Top = Nil
    /\ resolved.m.Left = Millimeter(5)
    /\ resolved.m.Top = Millimeter(10)

----------------------------------------------------------------------------
(* Claims about connecting and exporting, under SpecExport *)

\* C12: the health check maps the response status exactly as: 200 is success, 404
\* gives NotFound, 500 gives InternalError, 502 gives BadGateway and every other status
\* gives NotImplemented.
C12_HealthCheckStatusMapping ==
    (health.called /\ health.status # 0) =>
        /\ health.status = 200 => health.err = NoErr
        /\ health.status = 404 => health.err = ErrNotFound
        /\ health.status = 500 => health.err = ErrInternalError
        /\ health.status = 502 => health.err = ErrBadGateway
        /\ health.status \notin {200, 404, 500, 502} => health.err = ErrNotImplemented

C12_Witness ==
    /\ health.called
    /\ health.status = 502
    /\ health.err = ErrBadGateway
    /\ unihtmlClient

\* the export has passed its checks and has a context for its conversion call
HasContext == exp.pc \in {"call", "converting", "parse"} \/ (exp.pc = "done" /\ exp.issued > 0)

\* C13: the deadline under which an export issues the conversion call is the
\* document's explicit timeout when one was set with SetTimeoutDuration; otherwise it
\* is 15 seconds for GetPdfPages and GeneratePageBlocks and 20 seconds plus the
\* configured wait time for WriteToFile (the caller's context having no deadline).
C13_ExportDeadline ==
    (HasContext /\ exp.caller.deadline = NoDeadline) =>
        exp.ctx.deadline - exp.start =
            IF doc.timeout # <<>> THEN doc.timeout[1]
            ELSE IF exp.op = "WriteToFile" THEN 20 * Second + doc.waitTime
            ELSE 15 * Second

\* C14: the deadline an export imposes composes with the caller-supplied context and
\* never replaces it: the call is bounded by the earlier of the caller's deadline and
\* the export's own, so its deadline is never later than the caller's, and cancelling
\* the caller's context ends the call: no answer is taken once the caller's context is
\* cancelled or past its deadline.
C14_DeadlineComposesWithCaller ==
    (HasContext /\ exp.op = "GetPdfPages") =>
        /\ exp.ctx.deadline = Earliest(exp.caller.deadline, exp.start + exp.own)
        /\ exp.caller.deadline # NoDeadline => exp.ctx.deadline <= exp.caller.deadline
        /\ exp.caller.cancelled => Done(exp.ctx, exp.caller, now)
        /\ exp.answered # -1 =>
                /\ ~exp.caller.cancelled
                /\ exp.caller.deadline # NoDeadline => exp.answered < exp.caller.deadline
                /\ exp.answered < exp.start + exp.own

\* a call of GetPdfPages ended by the caller's cancellation before either deadline
C14_Witness ==
    /\ exp.op = "GetPdfPages"
    /\ exp.pc = "done"
    /\ exp.caller.cancelled
    /\ exp.caller.deadline = exp.start + 2 * TickLength
    /\ exp.ctx.deadline = exp.caller.deadline
    /\ exp.own = 15 * Second
    /\ now < exp.ctx.deadline
    /\ exp.err = E("context canceled", <<>>, "")

\* C20: there is no retry and no cached result: every export issues at most one
\* conversion call, exactly one when its checks and its query build succeed and none
\* when they fail, and a second export on the same document issues a new call; any
\* transport, decode, status or parse error ends the export with that error.
C20_OneConversionPerExport ==
    /\ exp.issued <= 1
    /\ exp.pc \in {"converting", "parse"} => exp.issued = 1
    /\ exp.pc = "done" => exp.issued = (IF exp.checked = NoErr THEN 1 ELSE 0)
    /\ stat.calls = stat.passed - (IF exp.pc = "call" THEN 1 ELSE 0)
    /\ (exp.pc = "done" /\ exp.outcome # NoErr) => exp.err = exp.outcome
    /\ (exp.pc = "done" /\ exp.checked = NoErr /\ exp.outcome = NoErr
            /\ NewPdfReader(exp.data) # NoErr) => exp.err = NewPdfReader(exp.data)

\* the second export of a document issued the second call, which failed on its status
C20_Witness ==
    /\ stat.exports = 2
    /\ stat.calls = 2
    /\ exp.pc = "done"
    /\ exp.issued = 1
    /\ Is(exp.err, ErrBadRequest)

\* C21: an export made while no client is connected returns ErrNoClient, and one made of
\* a document without content returns ErrContentNotDefined; in both cases no query is
\* built and no conversion call is issued.
C21_NotConnectedIsExplicit ==
    exp.pc # "idle" =>
        /\ ~unihtmlClient =>
                (exp.pc = "done" /\ exp.err = ErrNoClient /\ exp.q = ZeroQuery /\ exp.issued = 0)
        /\ (unihtmlClient /\ doc.content = <<>>) =>
                (exp.pc = "done" /\ exp.err = ErrContentNotDefined /\ exp.q = ZeroQuery
                    /\ exp.issued = 0)

\* a second export of a Document without content, the client being connected, is refused
\* as the first was, no call having been made
C21_Witness ==
    /\ unihtmlClient
    /\ exp.op = "GeneratePageBlocks"
    /\ exp.err = ErrContentNotDefined
    /\ stat.exports = 2
    /\ stat.calls = 0

\* C26: the client is installed only by a connect call whose health check succeeded:
\* while every connect call made has returned an error, the client is absent and every
\* export returns ErrNoClient without a conversion call.
C26_ClientInstalledOnlyOnSuccess ==
    (health.connects > 0 /\ ~health.succeeded) =>
        /\ ~unihtmlClient
        /\ exp.pc # "idle" => (exp.err = ErrNoClient /\ exp.issued = 0)

----------------------------------------------------------------------------
(* A claim about finalizing the builder, under SpecBuilder *)

PageErrors == {NegativeErr(d) : d \in Dimensions} \cup {E("invalid page size", <<>>, "")}

PageCheckFails(q) == NegativeDimensions(q) # {} \/ ~PageSizeEnumerated(q)

\* C24: Query() surfaces one error with a fixed precedence: the sticky builder error if
\* there is one, otherwise the error of the first failing check in the order
\* content/method, page parameters, render parameters; when it returns an error it
\* returns no query, and a query it returns passes Query.Validate.
C24_FinalizePrecedence ==
    last.op = "Query" =>
        LET b == last.before
            q == last.before.query
            r == last.ret
        IN  /\ b.err # NoErr => r.err = b.err
            /\ (b.err = NoErr /\ ~ContentPresent(q)) =>
                    (r.err \in {ErrMissingData, ErrContentType} \/ IsUndefinedMethodErr(r.err))
            /\ (b.err = NoErr /\ ContentPresent(q) /\ PageCheckFails(q)) =>
                    r.err \in PageErrors
            /\ (b.err = NoErr /\ ContentPresent(q) /\ ~PageCheckFails(q)) =>
                    r.err = RenderParametersValidate(q.RenderParameters)
            /\ r.err # NoErr => ~r.ptr
            /\ r.ptr => (r.err = NoErr /\ QueryValidate(q) = NoErr)

\* a builder without content whose paper width is negative and whose wait time is too
\* long fails all three checks: Query() returns the error of the first, and no query
C24_Witness ==
    /\ last.op = "Query"
    /\ last.before.err = NoErr
    /\ PageCheckFails(last.before.query)
    /\ RenderParametersValidate(last.before.query.RenderParameters) # NoErr
    /\ IsUndefinedMethodErr(last.ret.err)
    /\ ~last.ret.ptr

----------------------------------------------------------------------------
(* A claim about the unit conversions, under SpecSizes *)

\* a and b agree up to the rounding of the constants: the quotient a / b is within 1%
\* of 1, or both are 0
Close(a, b) ==
    IF b.num = 0 THEN a.num = 0
    ELSE LET q == Mul(a, IF b.num < 0 THEN [num |-> -b.den, den |-> -b.num]
                         ELSE [num |-> b.den, den |-> b.num])
         IN  100 * Abs(q.num - q.den) <= q.den

\* C27: the unit conversions are consistent with each other: inch to point and back,
\* millimeter to point and back, and inch to millimeter and back each return the
\* original value up to the rounding of the constants, and inch to point directly gives
\* what inch to millimeter to point gives.
C27_ConversionsConsistent ==
    /\ sz.path \in {<<"in", "pt", "in">>, <<"mm", "pt", "mm">>, <<"in", "mm", "in">>} =>
            Close(sz.cur.val, Exact(sz.x).val)
    /\ sz.path = <<"in", "mm", "pt">> => Close(sz.cur.val, Inch_Points(Exact(sz.x)).val)

----------------------------------------------------------------------------
(* Claims about the layout of a Document, under SpecLayout *)

\* a round of the loop has run and the loop has not failed since
Rounded == lay.round.i > 0 /\ lay.err = NoErr

IsLastPage == lay.round.i = Len(lay.pages)

\* what the claim gives as the trim of the page of the last round
TrimAmount ==
    LET page == lay.pages[lay.round.i]
        fraction == detectTrimHeight(page.img)
        whole == Mul(Whole(page.mbox), Rat(fraction.num, fraction.den))
        reduced == IF doc.margins.Bottom = Nil THEN whole
                   ELSE Sub(whole, PointsOf(doc.margins.Bottom))
    IN  IF ~(IsLastPage /\ doc.trimLast) THEN Whole(0)
        ELSE IF reduced.num < 0 THEN Whole(0)
        ELSE reduced

\* the cursor moved to a new page in the last round, after the block was placed
Advanced == lay.ctx.Page = lay.round.newCtx.Page + 1

\* C22: the trim amount is non-zero only for the last page and only when trimming was
\* requested; for that page it is the media-box height times the detected trim fraction,
\* less the bottom margin if one is set, and at least 0; the cursor's vertical position
\* after the page is reduced by exactly that amount, and by nothing for any other page.
C22_TrimOnlyLastPage ==
    Rounded =>
        /\ lay.round.trimHeight = TrimAmount
        /\ lay.round.trimHeight.num >= 0
        /\ lay.round.trimHeight.num # 0 => (IsLastPage /\ doc.trimLast)
        /\ IsLastPage => lay.ctx.Y = Sub(lay.round.newCtx.Y, TrimAmount)
        /\ (~IsLastPage /\ ~Advanced) => lay.ctx.Y = lay.round.newCtx.Y

\* the last of two pages, a third of it blank, of a Document with a bottom margin of
\* 10 mm: 264 points less the margin are trimmed
C22_Witness ==
    /\ Rounded
    /\ lay.round.i = 2
    /\ IsLastPage
    /\ doc.trimLast
    /\ doc.margins.Bottom = Millimeter(10)
    /\ lay.round.trimHeight = Sub(Whole(264), Rat(12500, 441))
    /\ lay.ctx.Y = Sub(lay.round.newCtx.Y, lay.round.trimHeight)

\* C23: after the blocks of page i are placed the cursor moves to a new page (page
\* counter + 1, X the left margin, Y the top margin) if and only if page i is not the
\* last page and the cursor's vertical position exceeds 95% of the page height less the
\* bottom margin; it never does after the last page; pages are taken in their order.
C23_NewPageAfterPage ==
    /\ lay.order = [k \in 1..lay.i |-> k]
    /\ Rounded =>
            LET y == Sub(lay.round.newCtx.Y, lay.round.trimHeight)
                exceeds == 100 * y.num >
                                95 * (lay.ctx.PageHeight - lay.ctx.Margins.Bottom) * y.den
            IN  /\ Advanced <=> (~IsLastPage /\ exceeds)
                /\ Advanced => /\ lay.ctx.X = Whole(lay.ctx.Margins.Left)
                               /\ lay.ctx.Y = Whole(lay.ctx.Margins.Top)
                /\ ~Advanced => /\ lay.ctx.Page = lay.round.newCtx.Page
                                /\ lay.ctx.X = lay.round.newCtx.X
                /\ IsLastPage => ~Advanced

\* the first of two pages leaves the cursor at 761 of 800 points: the second starts on
\* a new page, at the margins
C23_Witness ==
    /\ Rounded
    /\ lay.round.i = 1
    /\ Len(lay.pages) = 2
    /\ lay.round.newCtx.Y = Whole(761)
    /\ Advanced
    /\ lay.ctx.X = Whole(40)
    /\ lay.ctx.Y = Whole(30)

====
